---- MODULE Spec2Model ----
(***************************************************************************)
(* Artifact lifecycle of the Zed Java extension: the update policy, the    *)
(* per-artifact resolvers (jdtls, lombok, debugger plugin, jdk), the prune *)
(* after install and the in-memory path caches.                            *)
(*                                                                         *)
(* One behaviour follows ONE install root (the roots jdtls/, lombok/,      *)
(* debugger/ and jdk/ are disjoint directories, no resolver touches        *)
(* another artifact's root); `art` is fixed by Init.                       *)
(*                                                                         *)
(* A version entry under the root is named by its version number: the     *)
(* build directory jdtls/<build>, the jar lombok/lombok-<v>.jar, the jar   *)
(* debugger/com.microsoft.java.debug.plugin-<v>.jar, the directory         *)
(* jdk/<v>.  `entries` lists them in creation order, so the most recently  *)
(* created one (what the find_latest_local_* functions return) is the last.*)
(* A path is modelled by the version entry it points into.                 *)
(*                                                                         *)
(* Host calls (fetch, latest_github_release, download_file,                *)
(* make_file_executable, read_dir, removals) may fail: their outcome is an *)
(* input of the action.  download_file is atomic: on failure it leaves no  *)
(* entry.  fs::write of the marker into an existing directory succeeds.    *)
(*                                                                         *)
(* Spec follows the resolvers of one install root.  SpecInject follows the *)
(* debugger plugin of one session together with the initialization options *)
(* the host asks for (bundle injection).  SpecConfig follows one debug     *)
(* configuration through Debugger::inject_config; the answers of the       *)
(* language server are inputs of the call.                                 *)
(***************************************************************************)
EXTENDS Integers, Sequences, FiniteSets, TLC

\* number of distinct versions the version source can publish
NumVersions == 2

Versions == 1..NumVersions

\* Option::None for an optional version / path
None == 0

\* the file name ".update_checked" inside an install root
ONCE_CHECK_MARKER == 0

\* the pinned version "0.53.2" of the java-debug fork
ForkVersion == 2

Artifacts == {"jdtls", "lombok", "debugger", "jdk"}

\* enum CheckUpdates
Modes == {"Always", "Once", "Never"}

VARIABLES
    art,        \* the artifact whose install root this behaviour follows
    rootDir,    \* the install root exists as a directory
    entries,    \* version entries under the root, in creation order
    marker,     \* content of <root>/.update_checked, None if the file is absent
    latest,     \* the version the remote version source currently reports
    cache,      \* in-memory cached path (cached_binary_path, cached_lombok_path, plugin_path)
    last,       \* report of the most recent resolver call
    prev,       \* summary of the resolver call before it
    inj,        \* report of the most recent call of the debug-adapter injectors
    call        \* report of the most recent call of a version parser, of the
                \* runtime locator or of the launch-argument builder

vars == <<art, rootDir, entries, marker, latest, cache, last, prev, inj, call>>

fsvars == <<rootDir, entries, marker>>

----------------------------------------------------------------------------
\* helpers on the directory listing

Has(es, v) == \E i \in 1..Len(es) : es[i] = v

Names(es) == {es[i] : i \in 1..Len(es)}

\* entry created most recently (max_by_key created), None for an empty listing
LatestCreated(es) == IF Len(es) = 0 THEN None ELSE es[Len(es)]

find_latest_local_jdk(es) == LatestCreated(es)

find_latest_local_jdtls(es) == LatestCreated(es)

find_latest_local_lombok(es) == LatestCreated(es)

find_latest_local_debugger(es) == LatestCreated(es)

find_latest_local(a, es) ==
    CASE a = "jdk" -> find_latest_local_jdk(es)
      [] a = "jdtls" -> find_latest_local_jdtls(es)
      [] a = "lombok" -> find_latest_local_lombok(es)
      [] OTHER -> find_latest_local_debugger(es)

has_checked_once(mk) == mk # None

is_installed_never(es, v) == FALSE

\* the "latest version isn't installed" test: fs::metadata(path) is a file
\* (jdtls, lombok, debugger), install_path.exists() (jdk)
is_installed(es, v) == Has(es, v)

\* names present under the root that a prune keeping `keep` would try to remove
Stale(es, mk, keep) ==
    (Names(es) \ {keep}) \cup (IF mk # None THEN {ONCE_CHECK_MARKER} ELSE {})

remove_all_files_except_KeepsAll(es, mk, listOk, failRm, keep) ==
    [ok |-> listOk, entries |-> es, marker |-> mk]

\* remove_all_files_except: listOk = read_dir succeeded; failRm = the names whose
\* removal fails.  Every directory and file other than `keep` is removed, the
\* marker file included; an individual failure is printed and skipped.
remove_all_files_except(es, mk, listOk, failRm, keep) ==
    IF ~listOk
    THEN [ok |-> FALSE, entries |-> es, marker |-> mk]
    ELSE LET Kept(e) == e = keep \/ e \in failRm
         IN [ok |-> TRUE,
             entries |-> SelectSeq(es, Kept),
             marker |-> IF ONCE_CHECK_MARKER \in failRm THEN mk ELSE None]

\* mark_checked_once: creates the root if needed and writes the version
mark_checked_once(version) == [rootDir |-> TRUE, marker |-> version]

----------------------------------------------------------------------------
\* update policy

should_use_local_or_download_NeverDownloads(mode, local, checked) ==
    CASE mode = "Never" -> IF local # None THEN "UseLocal" ELSE "Download"
      [] mode = "Once" -> IF local # None THEN "UseLocal"
                          ELSE IF checked THEN "Fail"
                          ELSE "Download"
      [] OTHER -> "Download"

should_use_local_or_download_OnceIgnoresMarker(mode, local, checked) ==
    CASE mode = "Never" -> IF local # None THEN "UseLocal" ELSE "Fail"
      [] mode = "Once" -> IF local # None THEN "UseLocal" ELSE "Download"
      [] OTHER -> "Download"

\* Ok(Some(path)) = "UseLocal", Ok(None) = "Download", Err = "Fail"
should_use_local_or_download(mode, local, checked) ==
    CASE mode = "Never" -> IF local # None THEN "UseLocal" ELSE "Fail"
      [] mode = "Once" -> IF local # None THEN "UseLocal"
                          ELSE IF checked THEN "Fail"
                          ELSE "Download"
      [] OTHER -> "Download"

jdk_check_updates_OnceIgnoresMarker(mode, local, checked) ==
    CASE mode = "Never" -> IF local # None THEN "UseLocal" ELSE "Fail"
      [] mode = "Once" -> IF local # None THEN "UseLocal" ELSE "Download"
      [] OTHER -> "Download"

\* the match on get_check_updates at the head of try_to_fetch_and_install_latest_jdk
jdk_check_updates(mode, local, checked) ==
    CASE mode = "Never" -> IF local # None THEN "UseLocal" ELSE "Fail"
      [] mode = "Once" -> IF local # None THEN "UseLocal"
                          ELSE IF checked THEN "Fail"
                          ELSE "Download"
      [] OTHER -> "Download"

----------------------------------------------------------------------------
\* outcome of one resolver call: result, new file system, new cache, and what
\* the call did (version-source requests, downloads, prune)

Out(res, path, rd, es, mk, ch, f, d, dec, fv, pr) ==
    [res |-> res, path |-> path, rootDir |-> rd, entries |-> es, marker |-> mk,
     cache |-> ch, fetches |-> f, downloads |-> d, decision |-> dec,
     fetched |-> fv, pruned |-> pr]

\* how a prune ended: not run, listing failed, some removal failed, clean
PruneTag(es, mk, listOk, failRm, keep) ==
    IF ~listOk THEN "listErr"
    ELSE IF failRm \cap Stale(es, mk, keep) # {} THEN "rmErr"
    ELSE "ok"

after_prune_propagates(pruneOk) == IF pruneOk THEN "Ok" ELSE "Err"

\* `let _ = remove_all_files_except(..)`: the prune's result is dropped
after_prune(pruneOk) == "Ok"

try_to_fetch_and_install_latest_jdk_MarksBeforeLookup(mode, netOk, dlOk, listOk, failRm) ==
    LET local == find_latest_local_jdk(entries)
        gate == jdk_check_updates(mode, local, has_checked_once(marker))
        m0 == IF mode = "Once" THEN mark_checked_once(latest)
              ELSE [rootDir |-> rootDir, marker |-> marker]
    IN
    IF gate = "UseLocal"
    THEN Out("Ok", local, rootDir, entries, marker, cache, 0, "none", gate, None, "no")
    ELSE IF gate = "Fail"
    THEN Out("Err", None, rootDir, entries, marker, cache, 0, "none", gate, None, "no")
    ELSE IF ~netOk
    THEN Out("Err", None, m0.rootDir, entries, m0.marker, cache, 1, "none", gate, None, "no")
    ELSE IF is_installed(entries, latest)
    THEN Out("Ok", latest, m0.rootDir, entries, m0.marker, cache, 1, "none", gate, latest, "no")
    ELSE IF ~dlOk
    THEN Out("Err", None, m0.rootDir, entries, m0.marker, cache, 1, "failed", gate, latest, "no")
    ELSE
      LET es1 == Append(entries, latest)
          p == remove_all_files_except(es1, marker, listOk, failRm, latest)
          m == IF mode = "Once" THEN mark_checked_once(latest)
               ELSE [rootDir |-> TRUE, marker |-> p.marker]
      IN Out(after_prune(p.ok), latest, TRUE, p.entries, m.marker, cache, 1, "ok", gate,
             latest, PruneTag(es1, marker, listOk, failRm, latest))

try_to_fetch_and_install_latest_jdk(mode, netOk, dlOk, listOk, failRm) ==
    LET local == find_latest_local_jdk(entries)
        gate == jdk_check_updates(mode, local, has_checked_once(marker))
    IN
    IF gate = "UseLocal"
    THEN Out("Ok", local, rootDir, entries, marker, cache, 0, "none", gate, None, "no")
    ELSE IF gate = "Fail"
    THEN Out("Err", None, rootDir, entries, marker, cache, 0, "none", gate, None, "no")
    ELSE IF ~netOk
    THEN Out("Err", None, rootDir, entries, marker, cache, 1, "none", gate, None, "no")
    ELSE
      LET version == latest IN
      IF is_installed(entries, version)
      THEN \* install_path.exists(): skip the download
           LET m == IF mode = "Once" THEN mark_checked_once(version)
                    ELSE [rootDir |-> rootDir, marker |-> marker]
           IN Out("Ok", version, m.rootDir, entries, m.marker, cache, 1, "none", gate, version, "no")
      ELSE IF ~dlOk
      THEN Out("Err", None, rootDir, entries, marker, cache, 1, "failed", gate, version, "no")
      ELSE
        LET es1 == Append(entries, version)
            p == remove_all_files_except(es1, marker, listOk, failRm, version)
            m == IF mode = "Once" THEN mark_checked_once(version)
                 ELSE [rootDir |-> TRUE, marker |-> p.marker]
        IN Out(after_prune(p.ok), version, TRUE, p.entries, m.marker, cache, 1, "ok", gate,
               version, PruneTag(es1, marker, listOk, failRm, version))

----------------------------------------------------------------------------
\* directory creation

\* fs::create_dir: fails with AlreadyExists when the directory is there
create_dir(rd) == [ok |-> ~rd, rootDir |-> TRUE]

\* create_path_if_not_exists: Ok when the directory exists or was created
create_path_if_not_exists(rd) == [ok |-> TRUE, rootDir |-> TRUE]

----------------------------------------------------------------------------
\* jdtls and lombok

\* net = number of version-source requests that succeed before one fails
\* (the milestones listing, then <version>/latest.txt)
try_to_fetch_and_install_latest_jdtls(net, dlOk, execOk, listOk, failRm) ==
    IF net = 0
    THEN Out("Err", None, rootDir, entries, marker, cache, 1, "none", "-", None, "no")
    ELSE IF net = 1
    THEN Out("Err", None, rootDir, entries, marker, cache, 2, "none", "-", None, "no")
    ELSE
      LET build == latest IN
      IF is_installed(entries, build)
      THEN Out("Ok", build, rootDir, entries, marker, cache, 2, "none", "-", build, "no")
      ELSE IF ~dlOk
      THEN Out("Err", None, rootDir, entries, marker, cache, 2, "failed", "-", build, "no")
      ELSE
        LET es1 == Append(entries, build) IN
        IF ~execOk  \* make_file_executable(..)?
        THEN Out("Err", None, TRUE, es1, marker, cache, 2, "noexec", "-", build, "no")
        ELSE
          LET p == remove_all_files_except(es1, marker, listOk, failRm, build)
          IN Out(after_prune(p.ok), build, TRUE, p.entries, p.marker, cache, 2, "ok", "-",
                 build, PruneTag(es1, marker, listOk, failRm, build))

try_to_fetch_and_install_latest_lombok(netOk, dlOk, listOk, failRm) ==
    IF ~netOk
    THEN Out("Err", None, rootDir, entries, marker, cache, 1, "none", "-", None, "no")
    ELSE
      LET jar == latest IN
      IF is_installed(entries, jar)
      THEN Out("Ok", jar, rootDir, entries, marker, cache, 1, "none", "-", jar, "no")
      ELSE
        LET c == create_dir(rootDir) IN
        IF ~c.ok
        THEN Out("Err", None, rootDir, entries, marker, cache, 1, "none", "-", jar, "no")
        ELSE IF ~dlOk
        THEN Out("Err", None, c.rootDir, entries, marker, cache, 1, "failed", "-", jar, "no")
        ELSE
          LET es1 == Append(entries, jar)
              p == remove_all_files_except(es1, marker, listOk, failRm, jar)
          IN Out(after_prune(p.ok), jar, c.rootDir, p.entries, p.marker, cache, 1, "ok", "-",
                 jar, PruneTag(es1, marker, listOk, failRm, jar))

\* a cached path is used only if fs::metadata says it is still a file
CacheValid(ch, es) == ch # None /\ Has(es, ch)

\* on Err: fall back to the most recently created local entry, if any
fallback_to_local(a, r) ==
    LET local == find_latest_local(a, r.entries) IN
    IF r.res = "Ok" THEN [r EXCEPT !.cache = r.path]
    ELSE IF local # None THEN [r EXCEPT !.res = "Ok", !.path = local, !.cache = local]
    ELSE r

\* Java::language_server_binary_path
language_server_binary_path(net, dlOk, execOk, listOk, failRm) ==
    IF CacheValid(cache, entries)
    THEN Out("Ok", cache, rootDir, entries, marker, cache, 0, "none", "-", None, "no")
    ELSE fallback_to_local("jdtls",
            try_to_fetch_and_install_latest_jdtls(net, dlOk, execOk, listOk, failRm))

\* Java::lombok_jar_path
lombok_jar_path(netOk, dlOk, listOk, failRm) ==
    IF CacheValid(cache, entries)
    THEN Out("Ok", cache, rootDir, entries, marker, cache, 0, "none", "-", None, "no")
    ELSE fallback_to_local("lombok",
            try_to_fetch_and_install_latest_lombok(netOk, dlOk, listOk, failRm))

\* ArtifactStore.resolve for jdtls and lombok under an update mode: the caller
\* of should_use_local_or_download, which persists the marker after a
\* successful Once-mode download and falls back to a local install on error
resolve_with_policy(a, mode, net, dlOk, execOk, listOk, failRm) ==
    LET local == find_latest_local(a, entries)
        d == should_use_local_or_download(mode, local, has_checked_once(marker))
        r0 == IF a = "jdtls"
              THEN try_to_fetch_and_install_latest_jdtls(net, dlOk, execOk, listOk, failRm)
              ELSE try_to_fetch_and_install_latest_lombok(net # 0, dlOk, listOk, failRm)
        r == [r0 EXCEPT !.decision = d]
        m == mark_checked_once(r.path)
        fb == find_latest_local(a, r.entries)
    IN
    IF d = "UseLocal"
    THEN Out("Ok", local, rootDir, entries, marker, cache, 0, "none", d, None, "no")
    ELSE IF d = "Fail"
    THEN Out("Err", None, rootDir, entries, marker, cache, 0, "none", d, None, "no")
    ELSE IF r.res = "Ok"
    THEN (IF mode = "Once" THEN [r EXCEPT !.rootDir = m.rootDir, !.marker = m.marker] ELSE r)
    ELSE IF fb # None THEN [r EXCEPT !.res = "Ok", !.path = fb]
    ELSE r

----------------------------------------------------------------------------
\* debugger plugin

get_or_download_fork(dlOk) ==
    LET jar == ForkVersion IN
    IF CacheValid(cache, entries) /\ cache = jar
    THEN Out("Ok", cache, rootDir, entries, marker, cache, 0, "none", "Download", None, "no")
    ELSE
      LET c == create_path_if_not_exists(rootDir) IN
      IF ~dlOk
      THEN Out("Err", None, c.rootDir, entries, marker, cache, 0, "failed", "Download", None, "no")
      ELSE Out("Ok", jar, c.rootDir,
               IF Has(entries, jar) THEN entries ELSE Append(entries, jar),
               marker, jar, 0, "ok", "Download", None, "no")

\* Debugger::get_or_download
get_or_download(mode, dlOk) ==
    LET local == find_latest_local_debugger(entries)
        d == should_use_local_or_download(mode, local, has_checked_once(marker))
    IN
    IF d = "UseLocal"
    THEN Out("Ok", local, rootDir, entries, marker, local, 0, "none", d, None, "no")
    ELSE IF d = "Fail"
    THEN Out("Err", None, rootDir, entries, marker, cache, 0, "none", d, None, "no")
    ELSE get_or_download_fork(dlOk)

\* Debugger::get_or_download_latest_official.  pick = the name read_dir lists
\* last (the listing order is the file system's); rmOk = remove_dir_all(prefix)
\* succeeded
get_or_download_latest_official(netOk, dlOk, rmOk, pick) ==
    IF CacheValid(cache, entries)
    THEN Out("Ok", cache, rootDir, entries, marker, cache, 0, "none", "-", None, "no")
    ELSE IF ~netOk
    THEN
      IF rootDir /\ pick \in Names(entries)
      THEN Out("Ok", pick, rootDir, entries, marker, pick, 1, "none", "-", None, "no")
      ELSE Out("Err", None, rootDir, entries, marker, cache, 1, "none", "-", None, "no")
    ELSE
      LET jar == latest IN
      IF is_installed(entries, jar)
      THEN Out("Ok", jar, rootDir, entries, marker, jar, 1, "none", "-", jar, "no")
      ELSE
        LET es0 == IF rmOk THEN <<>> ELSE entries
            mk0 == IF rmOk THEN None ELSE marker
            c == create_path_if_not_exists(rootDir /\ ~rmOk)
        IN
        IF ~dlOk
        THEN Out("Err", None, c.rootDir, es0, mk0, cache, 1, "failed", "-", jar, "no")
        ELSE Out("Ok", jar, c.rootDir, Append(es0, jar), mk0, jar, 1, "ok", "-", jar, "no")

----------------------------------------------------------------------------
\* reports

NoCall ==
    [op |-> "none", mode |-> "-", res |-> "-", path |-> None, fetches |-> 0,
     downloads |-> "none", decision |-> "-", fetched |-> None, pruned |-> "no",
     hadLocal |-> None, hadMarker |-> FALSE, hadRoot |-> FALSE,
     hadLatest |-> FALSE, hadOther |-> FALSE,
     changed |-> FALSE, markerAfter |-> None, pathOnDisk |-> FALSE,
     leftOther |-> FALSE, lostEntry |-> FALSE]

\* The report of a call holds its result and what it did (o), what it found on
\* disk when it started (the local candidate, the marker, the root, whether the
\* version the version source reports was on disk, whether any other version
\* entry was) and what it left on disk when it returned (whether the install
\* root changed, the marker, whether the returned path is an entry, whether
\* an entry other than the returned one remains, whether an entry that was
\* there at the start is gone).
Report(op, mode, o) ==
    [op |-> op, mode |-> mode, res |-> o.res, path |-> o.path, fetches |-> o.fetches,
     downloads |-> o.downloads, decision |-> o.decision, fetched |-> o.fetched,
     pruned |-> o.pruned,
     hadLocal |-> find_latest_local(art, entries), hadMarker |-> marker # None,
     hadRoot |-> rootDir,
     hadLatest |-> latest \in Names(entries),
     hadOther |-> Names(entries) \ {latest} # {},
     changed |-> <<o.rootDir, o.entries, o.marker>> # <<rootDir, entries, marker>>,
     markerAfter |-> o.marker,
     pathOnDisk |-> o.path \in Names(o.entries),
     leftOther |-> Names(o.entries) \ {o.path} # {},
     lostEntry |-> Names(entries) \ Names(o.entries) # {}]

\* what the next call needs to know about this one: it was a Once-mode resolve
\* that started with no local install and no marker, and how it ended
Summary(r) ==
    IF r.mode = "Once" /\ r.hadLocal = None /\ ~r.hadMarker
    THEN (IF r.res = "Ok" THEN "onceFreshOk" ELSE "onceFreshErr")
    ELSE "other"

\* apply the outcome of a resolver call
Apply(op, mode, o) ==
    /\ rootDir' = o.rootDir
    /\ entries' = o.entries
    /\ marker' = o.marker
    /\ cache' = o.cache
    /\ last' = Report(op, mode, o)
    /\ prev' = Summary(last)
    /\ UNCHANGED <<art, latest, inj, call>>

----------------------------------------------------------------------------
\* bundle injection into the language server's initialization options

\* length of the "bundles" array in the user's settings
MaxBundles == 2

\* current_dir.join(plugin_path): the absolute path of the plugin jar of a version
canonical_path(v) == <<"/work", "debugger", v>>

\* a bundle the user configured that is not the debug plugin
OtherBundle == <<"/opt", "bundles", "other.jar">>

BundleItems == {canonical_path(v) : v \in Versions} \cup {OtherBundle}

BundleArrays == UNION {[1..n -> BundleItems] : n \in 0..MaxBundles}

\* a serde_json Value found under "bundles": kind "absent" is no such key
JsonBundles(kind, items) == [kind |-> kind, items |-> items]

BundlesValues ==
    {JsonBundles("array", a) : a \in BundleArrays}
        \cup {JsonBundles(k, <<>>) : k \in {"absent", "string", "null"}}

\* Option<Value>: kind "none" is Option::None, "null" is Value::Null, "scalar"
\* any other Value that is not an object (string, number, bool, array), "object"
\* an object with a "bundles" key (or none) and another key "settings" (or none)
Options(kind, other, bundles) == [kind |-> kind, other |-> other, bundles |-> bundles]

NoBundles == JsonBundles("absent", <<>>)

NoOptions == Options("-", "absent", NoBundles)

OptionsInputs ==
    {Options(k, "absent", NoBundles) : k \in {"none", "null", "scalar"}}
        \cup {Options("object", o, b) : o \in {"absent", "set"}, b \in BundlesValues}

Count(items, p) == Cardinality({i \in 1..Len(items) : items[i] = p})

take_bundles_Lenient(o) ==
    IF o.kind = "object" /\ o.bundles.kind = "array"
    THEN [ok |-> TRUE, items |-> o.bundles.items]
    ELSE [ok |-> TRUE, items |-> <<>>]

\* options.get_mut("bundles").unwrap_or(empty array).take().as_array_mut():
\* the entries of "bundles", none when the key is missing (or the value is not
\* an object), an error when the key holds anything but an array
take_bundles(o) ==
    IF o.kind = "object" /\ o.bundles.kind # "absent"
    THEN (IF o.bundles.kind = "array"
          THEN [ok |-> TRUE, items |-> o.bundles.items]
          ELSE [ok |-> FALSE, items |-> <<>>])
    ELSE [ok |-> TRUE, items |-> <<>>]

push_canonical_path_Always(items, p) == Append(items, p)

\* if !bundles_vec.contains(&canonical_path) { bundles_vec.push(canonical_path) }
push_canonical_path(items, p) ==
    IF \E i \in 1..Len(items) : items[i] = p THEN items ELSE Append(items, p)

set_bundles_DropsOther(o, items) ==
    IF o.kind \in {"object", "null"}
    THEN [res |-> "Ok", out |-> Options("object", "absent", JsonBundles("array", items))]
    ELSE [res |-> "Abort", out |-> NoOptions]

\* options["bundles"] = bundles: sets the key of an object, turns Value::Null
\* into an object, panics on any other Value
set_bundles(o, items) ==
    IF o.kind = "object"
    THEN [res |-> "Ok", out |-> Options("object", o.other, JsonBundles("array", items))]
    ELSE IF o.kind = "null"
    THEN [res |-> "Ok", out |-> Options("object", "absent", JsonBundles("array", items))]
    ELSE [res |-> "Abort", out |-> NoOptions]

\* Debugger::inject_plugin_into_options
inject_plugin_into_options(plugin_path, o) ==
    IF plugin_path = None
    THEN [res |-> "Err", out |-> NoOptions]
    ELSE
      LET p == canonical_path(plugin_path) IN
      IF o.kind = "none"
      THEN [res |-> "Ok", out |-> Options("object", "absent", JsonBundles("array", <<p>>))]
      ELSE
        LET b == take_bundles(o) IN
        IF ~b.ok
        THEN [res |-> "Err", out |-> NoOptions]
        ELSE set_bundles(o, push_canonical_path(b.items, p))

\* Debugger::loaded
loaded(plugin_path) == plugin_path # None

\* Java::language_server_initialization_options: inject when the debugger is
\* loaded, hand the settings' options through otherwise
language_server_initialization_options(plugin_path, o) ==
    IF loaded(plugin_path)
    THEN inject_plugin_into_options(plugin_path, o)
    ELSE [res |-> "Ok", out |-> o]

NoInject ==
    [op |-> "none", opts |-> NoOptions, path |-> None, onDisk |-> FALSE,
     res |-> "-", out |-> NoOptions, again |-> FALSE, prevCount |-> 0]

\* The report of an initialization-options call: the options it was given, the
\* plugin path the debugger held and whether that jar was a file on disk, the
\* result, whether the options given were the output of the call before it
\* (made with the same plugin path), and how often that output listed the path.
InjectReport(o, r) ==
    [op |-> "init_options", opts |-> o, path |-> cache,
     onDisk |-> CacheValid(cache, entries), res |-> r.res, out |-> r.out,
     again |-> (inj.op = "init_options" /\ inj.res = "Ok" /\ inj.path # None
                /\ inj.path = cache /\ o = inj.out),
     prevCount |-> IF inj.path = None THEN 0
                   ELSE Count(inj.out.bundles.items, canonical_path(inj.path))]

----------------------------------------------------------------------------
\* debug configuration injection

\* lengths of the classPaths list of a configuration, of the entry-point list
\* and of the classpath result (a list of lists) the language server returns
MaxClassPaths == 2

MaxEntries == 2

MaxResolved == 2

MaxResolvedLen == 2

\* Option::None of an optional field, a field missing from the JSON object
Absent == "<absent>"

TEST_SCOPE == "$Test"

AUTO_SCOPE == "$Auto"

RUNTIME_SCOPE == "$Runtime"

SCOPES == {TEST_SCOPE, AUTO_SCOPE, RUNTIME_SCOPE}

\* worktree.root_path(): a path, and a path with characters that a JSON string
\* literal must escape (the backslashes of a Windows path; a directory name
\* may also hold a double quote or a backslash on other systems)
WorkspaceFolders == {"/home/u/proj", "C:\\Users\\u"}

NeedsJsonEscape(s) == s = "C:\\Users\\u"

PLACEHOLDER == "${workspaceFolder}"

\* the strings that occur, cut at the placeholder
Pieces(s) ==
    CASE s = "${workspaceFolder}/src" -> <<PLACEHOLDER, "/src">>
      [] s = "-Droot=${workspaceFolder}" -> <<"-Droot=", PLACEHOLDER>>
      [] OTHER -> <<s>>

\* serde_json::to_string of a string: the text of a JSON string literal, every
\* piece written with the escapes JSON requires
to_json_string(s) ==
    [i \in 1..Len(Pieces(s)) |-> [text |-> Pieces(s)[i], escaped |-> TRUE]]

\* .replace("${workspaceFolder}", &workspace_folder) on the serialized text: the
\* root path is spliced in as it is, without JSON escapes
replace_workspace_folder(t, root) ==
    [i \in 1..Len(t) |->
        IF t[i].text = PLACEHOLDER THEN [text |-> root, escaped |-> FALSE] ELSE t[i]]

\* what a JSON parser reads where the text is not a valid string literal
InvalidJson == "<invalid json>"

RECURSIVE JoinText(_)
JoinText(t) == IF t = <<>> THEN "" ELSE Head(t).text \o JoinText(Tail(t))

\* the string the receiver of the configuration reads from the literal
from_json_string(t) ==
    IF \E i \in 1..Len(t) : ~t[i].escaped /\ NeedsJsonEscape(t[i].text)
    THEN InvalidJson
    ELSE JoinText(t)

SeqsUpTo(S, n) == UNION {[1..k -> S] : k \in 0..n}

\* Option<Vec<String>>
OptList(set, items) == [set |-> set, items |-> items]

\* the debug configuration: json = the string parses as JSON; request is
\* "launch", "attach", Absent (no such key) or "<number>" (a value that is not
\* a string); args is a pass-through field of JavaDebugLaunchConfig, extra a key
\* the struct does not declare (sourcePaths, stepFilters, ...)
Config(json, request, mainClass, projectName, classPaths, cwd, args, extra) ==
    [json |-> json, request |-> request, mainClass |-> mainClass,
     projectName |-> projectName, classPaths |-> classPaths, cwd |-> cwd,
     args |-> args, extra |-> extra]

NoConfig == Config(FALSE, "-", Absent, Absent, OptList(FALSE, <<>>), Absent, Absent, Absent)

NotJson == Config(FALSE, Absent, Absent, Absent, OptList(FALSE, <<>>), Absent, Absent, Absent)

Requests == {"launch", "attach", Absent, "<number>"}

ClassPathInputs ==
    {OptList(FALSE, <<>>)}
        \cup {OptList(TRUE, l) : l \in SeqsUpTo(SCOPES \cup {"a.jar"}, MaxClassPaths)}

\* the workspace root together with the fields of a configuration that the
\* entry-point and classpath steps do not read
Frame(root, cwd, args, extra) == [root |-> root, cwd |-> cwd, args |-> args, extra |-> extra]

Frames ==
    {Frame("/home/u/proj", Absent, Absent, Absent),
     Frame("/home/u/proj", "${workspaceFolder}/src", "-Droot=${workspaceFolder}", "x"),
     Frame("C:\\Users\\u", "${workspaceFolder}/src", "-Xmx1G", Absent),
     Frame("C:\\Users\\u", Absent, Absent, "x")}

\* a call of inject_config: the configuration string and the worktree
ConfigInput(cfg, root) == [cfg |-> cfg, root |-> root]

ConfigInputs ==
    {ConfigInput(NotJson, "/home/u/proj")} \cup
    {ConfigInput(Config(TRUE, r, m, p, c, f.cwd, f.args, f.extra), f.root) :
        r \in Requests, m \in {Absent, "A"}, p \in {Absent, "P"},
        c \in ClassPathInputs, f \in Frames}

\* lsp::MainClassEntry
MainClassEntry(mainClass, projectName) ==
    [main_class |-> mainClass, project_name |-> projectName]

Candidates == {MainClassEntry("A", "P"), MainClassEntry("A", "Q"), MainClassEntry("B", "P")}

\* what the language server answers: kind "nolsp" = self.lsp.get() fails,
\* "err" = the request fails, "ok" = the value
Response(kind, value) == [kind |-> kind, value |-> value]

MainClassResponses ==
    {Response("nolsp", <<>>), Response("err", <<>>)}
        \cup {Response("ok", es) : es \in SeqsUpTo(Candidates, MaxEntries)}

ResolvedLists ==
    SeqsUpTo({"a.jar", "b.jar"}, MaxResolvedLen) \cup {<<RUNTIME_SCOPE>>, <<"b.jar", AUTO_SCOPE>>}

ClassPathResponses ==
    {Response("err", <<>>)}
        \cup {Response("ok", r) : r \in SeqsUpTo(ResolvedLists, MaxResolved)}

\* a query sent to the language server
Query(command, arguments) == [command |-> command, arguments |-> arguments]

\* zed::Result<String> of inject_config with the queries the call sent
ConfigResult(res, err, out, queries) ==
    [res |-> res, err |-> err, out |-> out, queries |-> queries]

is_not_launch_Never(cfg) == FALSE

\* config.get("request").and_then(Value::as_str).is_some_and(|req| req != "launch")
is_not_launch(cfg) ==
    cfg.request \notin {Absent, "<number>"} /\ cfg.request # "launch"

\* serde_json::from_value::<JavaDebugLaunchConfig>: `request: String` is required
parses_as_launch_config(cfg) == cfg.request \notin {Absent, "<number>"}

\* [main_class, project_name].iter().flatten(): the hints that are set
hint_arguments(cfg) ==
    (IF cfg.mainClass # Absent THEN <<cfg.mainClass>> ELSE <<>>)
        \o (IF cfg.projectName # Absent THEN <<cfg.projectName>> ELSE <<>>)

\* the two filters on the entries returned by resolve_main_class
matching_entries(cfg, es) ==
    LET Matches(e) ==
            /\ cfg.mainClass # Absent => e.main_class = cfg.mainClass
            /\ cfg.projectName # Absent => e.project_name = cfg.projectName
    IN SelectSeq(es, Matches)

select_entry_PicksFirst(cfg, es) ==
    IF Len(es) = 0
    THEN [ok |-> TRUE, main_class |-> cfg.mainClass, project_name |-> cfg.projectName]
    ELSE [ok |-> TRUE, main_class |-> es[1].main_class, project_name |-> es[1].project_name]

select_entry_KeepsInput(cfg, es) ==
    IF Len(es) > 1
    THEN [ok |-> FALSE, main_class |-> Absent, project_name |-> Absent]
    ELSE [ok |-> TRUE, main_class |-> cfg.mainClass, project_name |-> cfg.projectName]

\* more than one entry is an error; the first entry, else the configured values
select_entry(cfg, es) ==
    IF Len(es) > 1
    THEN [ok |-> FALSE, main_class |-> Absent, project_name |-> Absent]
    ELSE IF Len(es) = 0
    THEN [ok |-> TRUE, main_class |-> cfg.mainClass, project_name |-> cfg.projectName]
    ELSE [ok |-> TRUE, main_class |-> es[1].main_class, project_name |-> es[1].project_name]

HasScope(l) == \E i \in 1..Len(l) : l[i] \in SCOPES

scope_of_RuntimeBeforeAuto(l) ==
    IF \E i \in 1..Len(l) : l[i] = TEST_SCOPE THEN "test"
    ELSE IF \E i \in 1..Len(l) : l[i] = RUNTIME_SCOPE THEN "runtime"
    ELSE Absent

\* the scope argument of resolve_class_path
scope_of(l) ==
    IF \E i \in 1..Len(l) : l[i] = TEST_SCOPE THEN "test"
    ELSE IF \E i \in 1..Len(l) : l[i] = AUTO_SCOPE THEN Absent
    ELSE IF \E i \in 1..Len(l) : l[i] = RUNTIME_SCOPE THEN "runtime"
    ELSE Absent

RECURSIVE extend_all(_, _)
\* for resolved in result { classpaths.extend(resolved) }
extend_all(l, result) ==
    IF result = <<>> THEN l ELSE extend_all(l \o Head(result), Tail(result))

retain_non_scopes_KeepsRuntime(l) ==
    LET Kept(c) == c \notin {TEST_SCOPE, AUTO_SCOPE} IN SelectSeq(l, Kept)

\* classpaths.retain(|class| !SCOPES.contains(class))
retain_non_scopes(l) ==
    LET Kept(c) == c \notin SCOPES IN SelectSeq(l, Kept)

RECURSIVE dedup(_)
\* Vec::dedup: removes consecutive repeated elements
dedup(l) ==
    IF Len(l) <= 1 THEN l
    ELSE IF l[1] = l[2] THEN dedup(Tail(l))
    ELSE <<l[1]>> \o dedup(Tail(l))

\* a string field of the output as its receiver reads it: serialized, the
\* placeholder replaced in the text, parsed; a None field is not serialized
output_string(s, root) ==
    IF s = Absent THEN Absent
    ELSE from_json_string(replace_workspace_folder(to_json_string(s), root))

\* serde_json::to_string(&config) followed by the replacement of the
\* workspace-folder placeholder in the whole string.  The value serialized is
\* the JavaDebugLaunchConfig: a key the struct does not declare was dropped
\* when the configuration was parsed into it.
serialize_config(request, main_class, project_name, classpaths, cwd, args, extra, root) ==
    Config(TRUE, output_string(request, root),
           output_string(main_class, root),
           output_string(project_name, root),
           OptList(TRUE, [i \in 1..Len(classpaths) |-> output_string(classpaths[i], root)]),
           output_string(cwd, root),
           output_string(args, root),
           Absent)

\* Debugger::inject_config
inject_config(cfg, root, mainResp, cpResp) ==
    IF ~cfg.json
    THEN ConfigResult("Err", "parse", NoConfig, <<>>)
    ELSE IF is_not_launch(cfg)
    THEN ConfigResult("Ok", "-", cfg, <<>>)
    ELSE IF ~parses_as_launch_config(cfg)
    THEN ConfigResult("Err", "parse_launch", NoConfig, <<>>)
    ELSE IF mainResp.kind = "nolsp"
    THEN ConfigResult("Err", "lsp", NoConfig, <<>>)
    ELSE
      LET q1 == Query("vscode.java.resolveMainClass", hint_arguments(cfg)) IN
      IF mainResp.kind = "err"
      THEN ConfigResult("Err", "request", NoConfig, <<q1>>)
      ELSE
        LET sel == select_entry(cfg, matching_entries(cfg, mainResp.value)) IN
        IF ~sel.ok
        THEN ConfigResult("Err", "multiple", NoConfig, <<q1>>)
        ELSE
          LET cp0 == IF cfg.classPaths.set THEN cfg.classPaths.items ELSE <<AUTO_SCOPE>>
              q2 == Query("vscode.java.resolveClasspath",
                          <<sel.main_class, sel.project_name, scope_of(cp0)>>)
              cwd == IF cfg.cwd # Absent THEN cfg.cwd ELSE root
          IN
          IF HasScope(cp0) /\ cpResp.kind = "err"
          THEN ConfigResult("Err", "request", NoConfig, <<q1, q2>>)
          ELSE
            LET cp1 == IF HasScope(cp0) THEN extend_all(cp0, cpResp.value) ELSE cp0
                cp2 == dedup(retain_non_scopes(cp1))
            IN ConfigResult("Ok", "-",
                   serialize_config(cfg.request, sel.main_class, sel.project_name, cp2, cwd,
                                    cfg.args, cfg.extra, root),
                   IF HasScope(cp0) THEN <<q1, q2>> ELSE <<q1>>)

\* a configuration handed to the debug adapter, not yet injected
PendingConfig(cfg, root) ==
    [op |-> "config_pending", cfg |-> cfg, root |-> root, mainResp |-> Response("-", <<>>),
     cpResp |-> Response("-", <<>>), res |-> "-", err |-> "-", out |-> NoConfig,
     queries |-> <<>>]

\* the report of an inject_config call: the configuration, what the language
\* server answered, the result and the queries sent
ConfigReport(cfg, root, mainResp, cpResp, r) ==
    [op |-> "inject_config", cfg |-> cfg, root |-> root, mainResp |-> mainResp, cpResp |-> cpResp,
     res |-> r.res, err |-> r.err, out |-> r.out, queries |-> r.queries]

----------------------------------------------------------------------------
\* version sources: the jdtls milestones listing, latest.txt, GitHub tags

\* number of version entries in a milestones listing
MaxListed == 3

\* a string is the sequence of its characters
Digits == <<"0", "1", "2", "3", "4", "5", "6", "7", "8", "9">>

\* char::is_numeric, on the characters that occur
is_numeric(c) == \E i \in 1..Len(Digits) : Digits[i] = c

DigitValue(c) == (CHOOSE i \in 1..Len(Digits) : Digits[i] = c) - 1

\* u32::MAX, 4294967295
U32_MAX == <<"4", "2", "9", "4", "9", "6", "7", "2", "9", "5">>

RECURSIVE StripLeadingZeros(_)
StripLeadingZeros(ds) ==
    IF Len(ds) > 1 /\ Head(ds) = "0" THEN StripLeadingZeros(Tail(ds)) ELSE ds

\* numeric order of two numbers written without leading zeros
NumLess(a, b) ==
    \/ Len(a) < Len(b)
    \/ /\ Len(a) = Len(b)
       /\ \E i \in 1..Len(a) :
             /\ \A j \in 1..(i - 1) : a[j] = b[j]
             /\ DigitValue(a[i]) < DigitValue(b[i])

\* str::parse::<u32>: an error for the empty string and for a number above
\* u32::MAX; the value is kept as its decimal digits without leading zeros
parse_u32(number_buffer) ==
    LET ds == StripLeadingZeros(number_buffer) IN
    IF number_buffer = <<>> \/ NumLess(U32_MAX, ds)
    THEN [ok |-> FALSE, value |-> <<>>]
    ELSE [ok |-> TRUE, value |-> ds]

\* Option::None of a version component
NoNumber == <<>>

NoVersionBuffer == <<NoNumber, NoNumber, NoNumber>>

RECURSIVE scan_versions(_, _, _, _)
\* the loop over downloads_html.chars(): number_buffer, version_buffer and the
\* set of versions found; `?` on a failed parse leaves the function with Err
scan_versions(chars, number_buffer, version_buffer, versions) ==
    IF chars = <<>> THEN [ok |-> TRUE, versions |-> versions]
    ELSE
      LET c == Head(chars)
          n == parse_u32(number_buffer)
      IN
      IF is_numeric(c)
      THEN scan_versions(Tail(chars), Append(number_buffer, c), version_buffer, versions)
      ELSE IF c = "."
      THEN
        IF version_buffer[1] = NoNumber /\ number_buffer # <<>>
        THEN (IF ~n.ok THEN [ok |-> FALSE, versions |-> {}]
              ELSE scan_versions(Tail(chars), <<>>,
                                 <<n.value, version_buffer[2], version_buffer[3]>>, versions))
        ELSE IF version_buffer[2] = NoNumber /\ number_buffer # <<>>
        THEN (IF ~n.ok THEN [ok |-> FALSE, versions |-> {}]
              ELSE scan_versions(Tail(chars), <<>>,
                                 <<version_buffer[1], n.value, version_buffer[3]>>, versions))
        ELSE scan_versions(Tail(chars), <<>>, NoVersionBuffer, versions)
      ELSE
        IF /\ version_buffer[1] # NoNumber
           /\ version_buffer[2] # NoNumber
           /\ version_buffer[3] = NoNumber
        THEN (IF ~n.ok THEN [ok |-> FALSE, versions |-> {}]
              ELSE scan_versions(Tail(chars), <<>>, NoVersionBuffer,
                     versions \cup {<<version_buffer[1], version_buffer[2], n.value>>}))
        ELSE scan_versions(Tail(chars), <<>>, NoVersionBuffer, versions)

\* the order of (u32, u32, u32) in the BTreeSet
VersionLess(v, w) ==
    \/ NumLess(v[1], w[1])
    \/ v[1] = w[1] /\ NumLess(v[2], w[2])
    \/ v[1] = w[1] /\ v[2] = w[2] /\ NumLess(v[3], w[3])

last_version_Smallest(versions) ==
    CHOOSE v \in versions : \A w \in versions : w = v \/ VersionLess(v, w)

\* versions.last(): the greatest element of the BTreeSet
last_version(versions) ==
    CHOOSE v \in versions : \A w \in versions : w = v \/ VersionLess(w, v)

\* format!("{major}.{minor}.{patch}")
format_version(v) == v[1] \o <<".">> \o v[2] \o <<".">> \o v[3]

\* result of a parser: "Ok" with a value, "Err", or "Abort" (a panic)
Parsed(res, value) == [res |-> res, value |-> value]

\* the latest version read from the milestones page
latest_jdtls_version(downloads_html) ==
    LET s == scan_versions(downloads_html, <<>>, NoVersionBuffer, {}) IN
    IF ~s.ok THEN Parsed("Err", <<>>)
    ELSE IF s.versions = {} THEN Parsed("Err", <<>>)
    ELSE Parsed("Ok", format_version(last_version(s.versions)))

Whitespace == {" ", "\n"}

RECURSIVE trim_end(_)
trim_end(s) ==
    IF s # <<>> /\ s[Len(s)] \in Whitespace THEN trim_end(SubSeq(s, 1, Len(s) - 1)) ELSE s

\* ".tar.gz".len()
TAR_GZ_LEN == 7

\* &latest_version_build[..latest_version_build.len() - 7] after trim_end: the
\* subtraction underflows, and the slice panics, on a name shorter than 7 bytes
build_directory(latest_txt) ==
    LET b == trim_end(latest_txt) IN
    IF Len(b) < TAR_GZ_LEN THEN Parsed("Abort", <<>>)
    ELSE Parsed("Ok", SubSeq(b, 1, Len(b) - TAR_GZ_LEN))

\* a GitHub tags response: kind "invalid" is a body that is not JSON, "object"
\* JSON that is not an array, "array" the array of the tags' names, where
\* NoName stands for an element without a string "name"
Tags(kind, names) == [kind |-> kind, names |-> names]

NoName == <<"<no name>">>

\* get_tag_at: the name of the tag at index (counted from 0) without its first
\* character; &val[1..] panics on an empty name
get_tag_at(github_tags, index) ==
    IF github_tags.kind # "array" \/ index + 1 > Len(github_tags.names)
    THEN Parsed("None", <<>>)
    ELSE LET name == github_tags.names[index + 1] IN
         IF name = NoName THEN Parsed("None", <<>>)
         ELSE IF Len(name) < 1 THEN Parsed("Abort", <<>>)
         ELSE Parsed("Ok", Tail(name))

\* the version lookup of try_to_fetch_and_install_latest_lombok: the first
\* tag's name without the leading 'v'
latest_lombok_version(tags_response) ==
    IF tags_response.kind = "invalid" THEN Parsed("Err", <<>>)
    ELSE IF tags_response.kind # "array" \/ tags_response.names = <<>>
    THEN Parsed("Err", <<>>)
    ELSE LET name == tags_response.names[1] IN
         IF name = NoName THEN Parsed("Err", <<>>)
         ELSE IF Len(name) < 1 THEN Parsed("Abort", <<>>)
         ELSE Parsed("Ok", Tail(name))

\* get_latest_versions_from_tag: the latest and the second latest tag
get_latest_versions_from_tag(tags_response) ==
    LET latest_version == get_tag_at(tags_response, 0)
        second_version == get_tag_at(tags_response, 1)
    IN
    IF tags_response.kind = "invalid" THEN Parsed("Err", <<>>)
    ELSE IF latest_version.res = "Abort" \/ second_version.res = "Abort"
    THEN Parsed("Abort", <<>>)
    ELSE IF latest_version.res = "None" THEN Parsed("Err", <<>>)
    ELSE Parsed("Ok", <<latest_version.value, second_version.value>>)

\* entries of a milestones listing: three versions, an entry with two numeric
\* components followed by a dot and a letter, one whose first component is
\* above u32::MAX, one with four components, one with two
ListingEntries ==
    {<<"1", ".", "9", ".", "0">>,
     <<"1", ".", "1", "0", ".", "0">>,
     <<"1", ".", "2", ".", "5">>,
     <<"1", ".", "2", ".", "x">>,
     <<"9", "9", "9", "9", "9", "9", "9", "9", "9", "9", "9", ".", "0", ".", "1">>,
     <<"1", ".", "2", ".", "3", ".", "4">>,
     <<"1", ".", "2">>}

RECURSIVE listing_text(_)
\* the page: every entry is followed by the "/" of its link
listing_text(es) ==
    IF es = <<>> THEN <<>> ELSE Head(es) \o <<"/">> \o listing_text(Tail(es))

\* bodies of <version>/latest.txt
BuildBodies ==
    {<<"j", "d", "t", ".", "t", "a", "r", ".", "g", "z", "\n">>,
     <<".", "t", "a", "r", ".", "g", "z">>,
     <<"4", "0", "4">>,
     <<"\n">>,
     <<>>}

TagNames == {<<"v", "1", ".", "2">>, <<"v">>, <<>>, NoName}

TagResponses ==
    {Tags("invalid", <<>>), Tags("object", <<>>)}
        \cup {Tags("array", ns) : ns \in SeqsUpTo(TagNames, 2)}

NoCallYet == [op |-> "none", input |-> <<>>, res |-> "-", value |-> <<>>]

\* a remote response that has arrived and is not parsed yet
PendingResponse(kind, input) ==
    [op |-> "pending", kind |-> kind, input |-> input, res |-> "-", value |-> <<>>]

\* the report of a parser call: its input and its result
ParseReport(op, input, r) ==
    [op |-> op, kind |-> "-", input |-> input, res |-> r.res, value |-> r.value]

----------------------------------------------------------------------------
\* the runtime locator and the launch arguments of the self-managed server

\* greatest number of caller-supplied extra VM arguments
MaxJvmArgs == 1

\* current_platform().0
Platforms == {"Linux", "Windows"}

get_java_exec_name(os) == IF os = "Windows" THEN "java.exe" ELSE "java"

\* PathBuf::join
join(path, name) == path \o "/" \o name

\* values of the setting java_home, and of its legacy alias java/home
SettingsHomes == {"~/jdk", "/opt/jdk"}

LegacyHomes == {"/opt/legacy"}

\* values of HOME and of JAVA_HOME in the shell environment
UserHomes == {"/home/u"}

EnvJavaHomes == {"", "/env/jdk"}

\* the runtime homes under which bin/<java executable> is a file
Installs == {{}, {"/opt/jdk"}, {"/env/jdk"},
             {"/home/u/jdk", "~/jdk", "/opt/jdk", "/opt/legacy", "/env/jdk"}}

\* worktree.which of the java executable, and of the jdtls launcher
JavaOnPath == "/usr/bin/java"

LauncherOnPath == "/usr/bin/jdtls"

\* the configuration, the shell environment, the search path and the disk
\* that a server start finds
Environment(os, java_home, java_home_legacy, jdk_auto_download, HOME, JAVA_HOME, installed, which_java, which_jdtls) ==
    [os |-> os, java_home |-> java_home, java_home_legacy |-> java_home_legacy,
     jdk_auto_download |-> jdk_auto_download, HOME |-> HOME, JAVA_HOME |-> JAVA_HOME,
     installed |-> installed, which_java |-> which_java, which_jdtls |-> which_jdtls]

Environments ==
    {Environment(os, jh, jl, ad, h, ejh, inst, wj, wl) :
        os \in Platforms, jh \in {Absent} \cup SettingsHomes,
        jl \in {Absent} \cup LegacyHomes, ad \in BOOLEAN,
        h \in {Absent} \cup UserHomes, ejh \in {Absent} \cup EnvJavaHomes,
        inst \in Installs, wj \in {Absent, JavaOnPath},
        wl \in {Absent, LauncherOnPath}}

\* path.replace("~", value)
replace_tilde(path, value) == IF path = "~/jdk" THEN value \o "/jdk" ELSE path

\* Windows leaves the path alone; elsewhere HOME is required
expand_home_path(env, path) ==
    IF env.os = "Windows" THEN [ok |-> TRUE, value |-> path]
    ELSE IF env.HOME = Absent THEN [ok |-> FALSE, value |-> Absent]
    ELSE [ok |-> TRUE, value |-> replace_tilde(path, env.HOME)]

\* configuration.pointer("/java_home").or_else(|| pointer("/java/home"))
settings_java_home(env) ==
    IF env.java_home # Absent THEN env.java_home ELSE env.java_home_legacy

\* JAVA_HOME of the shell environment, when it is not empty
env_java_home(env) == IF env.JAVA_HOME = "" THEN Absent ELSE env.JAVA_HOME

\* config.rs: the setting, expanded, else JAVA_HOME
get_java_home(env) ==
    LET java_home == settings_java_home(env) IN
    IF java_home # Absent /\ expand_home_path(env, java_home).ok
    THEN expand_home_path(env, java_home).value
    ELSE env_java_home(env)

\* java.rs: the setting java/home as it is written, else JAVA_HOME
java_get_java_home(env) ==
    IF env.java_home_legacy # Absent THEN env.java_home_legacy ELSE env_java_home(env)

\* fs::metadata(path).is_ok_and(|stat| stat.is_file()) of an executable
is_file(env, java_executable) ==
    \E home \in env.installed :
        java_executable = join(join(home, "bin"), get_java_exec_name(env.os))

\* answers of try_to_fetch_and_install_latest_jdk: the bin directory of the
\* downloaded runtime, or an error
JdkError == "no JDK installation"

JdkBin == "/ext/jdk/21.0.1/corretto/bin"

JdkAnswers == {[res |-> "Ok", bin |-> JdkBin], [res |-> "Err", bin |-> Absent]}

JAVA_EXEC_NOT_FOUND_ERROR == "Could not find Java executable in JAVA_HOME or on PATH"

\* result of a locator: the executable or the error, and whether the runtime
\* download was asked
Located(res, path, err, asked_jdk) ==
    [res |-> res, path |-> path, err |-> err, asked_jdk |-> asked_jdk]

get_java_executable_PathFirst(env, jdk) ==
    LET java_executable_filename == get_java_exec_name(env.os)
        java_home == get_java_home(env)
    IN
    IF env.which_java # Absent THEN Located("Ok", env.which_java, "-", FALSE)
    ELSE IF java_home # Absent
    THEN Located("Ok", join(join(java_home, "bin"), java_executable_filename), "-", FALSE)
    ELSE IF env.jdk_auto_download
    THEN (IF jdk.res = "Ok"
          THEN Located("Ok", join(jdk.bin, java_executable_filename), "-", TRUE)
          ELSE Located("Err", Absent, JdkError, TRUE))
    ELSE Located("Err", Absent, JAVA_EXEC_NOT_FOUND_ERROR, FALSE)

\* util.rs: the runtime home, then the search path, then the download
get_java_executable(env, jdk) ==
    LET java_executable_filename == get_java_exec_name(env.os)
        java_home == get_java_home(env)
    IN
    IF java_home # Absent
    THEN Located("Ok", join(join(java_home, "bin"), java_executable_filename), "-", FALSE)
    ELSE IF env.which_java # Absent THEN Located("Ok", env.which_java, "-", FALSE)
    ELSE IF env.jdk_auto_download
    THEN (IF jdk.res = "Ok"
          THEN Located("Ok", join(jdk.bin, java_executable_filename), "-", TRUE)
          ELSE Located("Err", Absent, JdkError, TRUE))
    ELSE Located("Err", Absent, JAVA_EXEC_NOT_FOUND_ERROR, FALSE)

\* java.rs: the runtime home if its executable is a file, then the search path
java_get_java_executable(env) ==
    LET java_executable_filename == get_java_exec_name(env.os)
        java_home == java_get_java_home(env)
        java_executable == join(join(java_home, "bin"), java_executable_filename)
    IN
    IF java_home # Absent /\ is_file(env, java_executable)
    THEN Located("Ok", java_executable, "-", FALSE)
    ELSE IF env.which_java # Absent THEN Located("Ok", env.which_java, "-", FALSE)
    ELSE Located("Err", Absent, JAVA_EXEC_NOT_FOUND_ERROR, FALSE)

\* major versions that `java -version` reports; None is an output without a
\* version
Majors == {17, 20, 21, 23, 24, 25}

\* the executable can be run: it is a file under a runtime home, or it is the
\* one found on the search path or downloaded
can_execute(env, java_executable) ==
    \/ is_file(env, java_executable)
    \/ java_executable = JavaOnPath
    \/ java_executable = join(JdkBin, get_java_exec_name(env.os))

JAVA_VERSION_ERROR == "Failed to determine Java major version"

ExecuteError == "Failed to execute"

\* runs <java_executable> -version and reads the major version of its output
get_java_major_version(env, java_executable, version_output) ==
    IF ~can_execute(env, java_executable) THEN [res |-> "Err", major |-> None, err |-> ExecuteError]
    ELSE IF version_output = None
    THEN [res |-> "Err", major |-> None, err |-> JAVA_VERSION_ERROR]
    ELSE [res |-> "Ok", major |-> version_output, err |-> "-"]

\* the least major version the server runs on
MIN_JAVA == 21

\* the least major version that takes the XML entity size flags
XML_LIMIT_JAVA == 24

JavaTooOldError == "JDTLS requires at least Java 21"

\* extension_workdir.join(jdtls_path)
JdtlsBasePath == "/ext/jdtls/1.40.0"

get_shared_config_path(os, jdtls_base_directory) ==
    join(jdtls_base_directory, IF os = "Windows" THEN "config_win" ELSE "config_linux")

\* answers of find_equinox_launcher and of get_jdtls_data_path; Absent is an
\* error
EquinoxLauncher == "/ext/jdtls/1.40.0/plugins/org.eclipse.equinox.launcher.jar"

EquinoxError == "Cannot find equinox launcher"

JdtlsDataPath == "/cache/jdtls-3f2a"

DataPathError == "Could not get data path"

\* caller-supplied extra VM arguments
JvmArgs == {"-javaagent:/ext/lombok/lombok-1.18.jar", "-Xmx2G"}

fixed_args(shared_config_path) ==
    <<"-Declipse.application=org.eclipse.jdt.ls.core.id1",
      "-Dosgi.bundles.defaultStartLevel=4",
      "-Declipse.product=org.eclipse.jdt.ls.core.product",
      "-Dosgi.checkConfiguration=true",
      "-Dosgi.sharedConfiguration.area=" \o shared_config_path,
      "-Dosgi.sharedConfiguration.area.readOnly=true",
      "-Dosgi.configuration.cascaded=true",
      "-Xms1G",
      "--add-modules=ALL-SYSTEM",
      "--add-opens",
      "java.base/java.util=ALL-UNNAMED",
      "--add-opens",
      "java.base/java.lang=ALL-UNNAMED">>

jar_and_data(jar_path, jdtls_data_path) == <<"-jar", jar_path, "-data", jdtls_data_path>>

xml_limit_args_From21(java_major_version) ==
    IF java_major_version >= MIN_JAVA
    THEN <<"-Djdk.xml.maxGeneralEntitySizeLimit=0", "-Djdk.xml.totalEntitySizeLimit=0">>
    ELSE <<>>

\* the flags pushed for java_major_version >= 24
xml_limit_args(java_major_version) ==
    IF java_major_version >= XML_LIMIT_JAVA
    THEN <<"-Djdk.xml.maxGeneralEntitySizeLimit=0", "-Djdk.xml.totalEntitySizeLimit=0">>
    ELSE <<>>

launch_args_JvmArgsLast(java_executable, shared_config_path, jvm_args, jar_path, jdtls_data_path, java_major_version) ==
    <<java_executable>> \o fixed_args(shared_config_path)
        \o jar_and_data(jar_path, jdtls_data_path) \o jvm_args
        \o xml_limit_args(java_major_version)

\* the vector args of build_jdtls_launch_args
launch_args(java_executable, shared_config_path, jvm_args, jar_path, jdtls_data_path, java_major_version) ==
    <<java_executable>> \o fixed_args(shared_config_path) \o jvm_args
        \o jar_and_data(jar_path, jdtls_data_path)
        \o xml_limit_args(java_major_version)

\* the collaborators' answers to one build of the launch arguments
LaunchAnswers(jdk, version_output, jar_path, jdtls_data_path, jvm_args) ==
    [jdk |-> jdk, version_output |-> version_output, jar_path |-> jar_path,
     jdtls_data_path |-> jdtls_data_path, jvm_args |-> jvm_args]

\* result of a build: the arguments or the error, the located executable and
\* its major version
Built(res, args, err, exe, major) ==
    [res |-> res, args |-> args, err |-> err, exe |-> exe, major |-> major]

\* the steps of build_jdtls_launch_args after the runtime was located
build_with(env, exe, a) ==
    LET ver == get_java_major_version(env, exe.path, a.version_output) IN
    IF exe.res # "Ok" THEN Built("Err", <<>>, exe.err, exe, None)
    ELSE IF ver.res # "Ok" THEN Built("Err", <<>>, ver.err, exe, None)
    ELSE IF ver.major < MIN_JAVA THEN Built("Err", <<>>, JavaTooOldError, exe, ver.major)
    ELSE IF a.jar_path = Absent THEN Built("Err", <<>>, EquinoxError, exe, ver.major)
    ELSE IF a.jdtls_data_path = Absent THEN Built("Err", <<>>, DataPathError, exe, ver.major)
    ELSE Built("Ok",
               launch_args(exe.path, get_shared_config_path(env.os, JdtlsBasePath),
                           a.jvm_args, a.jar_path, a.jdtls_data_path, ver.major),
               "-", exe, ver.major)

NotLocated == Located("-", Absent, "-", FALSE)

\* jdtls.rs
build_jdtls_launch_args(env, a) ==
    IF env.which_jdtls # Absent
    THEN Built("Ok", <<env.which_jdtls>>, "-", NotLocated, None)
    ELSE build_with(env, get_java_executable(env, a.jdk), a)

\* java.rs
java_build_jdtls_launch_args(env, a) ==
    IF env.which_jdtls # Absent
    THEN Built("Ok", <<env.which_jdtls>>, "-", NotLocated, None)
    ELSE build_with(env, java_get_java_executable(env), a)

\* a server start that has read its environment and located nothing yet
PendingStart(env) ==
    [op |-> "pending", kind |-> "start", input |-> env, res |-> "-", value |-> <<>>]

\* the report of a locator call
LocateReport(op, env, jdk, r) ==
    [op |-> op, kind |-> "-", input |-> env, jdk |-> jdk, res |-> r.res,
     value |-> r.path, err |-> r.err, asked_jdk |-> r.asked_jdk]

\* the report of a build of the launch arguments
BuildReport(op, env, a, r) ==
    [op |-> op, kind |-> "-", input |-> env, answers |-> a, res |-> r.res,
     value |-> r.args, err |-> r.err, exe |-> r.exe, major |-> r.major]

----------------------------------------------------------------------------
Init ==
    /\ art \in Artifacts
    /\ rootDir = FALSE
    /\ entries = <<>>
    /\ marker = None
    /\ latest \in Versions
    /\ cache = None
    /\ last = NoCall
    /\ prev = Summary(NoCall)
    /\ inj = NoInject
    /\ call = NoCallYet

\* Inputs a call never reads are fixed (a failed request means no download,
\* a failed download no chmod, no prune; a failed listing no removal), so one
\* outcome is not enumerated many times.
Relevant(net, dlOk, execOk, listOk, failRm) ==
    /\ net < 2 => dlOk
    /\ ~dlOk => execOk
    /\ ~execOk => listOk
    /\ ~listOk => failRm = {}

ResolveJdk ==
    /\ art = "jdk"
    /\ \E mode \in Modes, netOk \in BOOLEAN, dlOk \in BOOLEAN, listOk \in BOOLEAN,
          failRm \in SUBSET (Stale(entries, marker, latest)) :
          /\ Relevant(IF netOk THEN 2 ELSE 0, dlOk, TRUE, listOk, failRm)
          /\ Apply("jdk", mode,
                   try_to_fetch_and_install_latest_jdk(mode, netOk, dlOk, listOk, failRm))

TryFetchJdtls ==
    /\ art = "jdtls"
    /\ \E net \in 0..2, dlOk \in BOOLEAN, execOk \in BOOLEAN, listOk \in BOOLEAN,
          failRm \in SUBSET (Stale(entries, marker, latest)) :
          /\ Relevant(net, dlOk, execOk, listOk, failRm)
          /\ Apply("jdtls_fetch", "-",
                   try_to_fetch_and_install_latest_jdtls(net, dlOk, execOk, listOk, failRm))

TryFetchLombok ==
    /\ art = "lombok"
    /\ \E netOk \in BOOLEAN, dlOk \in BOOLEAN, listOk \in BOOLEAN,
          failRm \in SUBSET (Stale(entries, marker, latest)) :
          /\ Relevant(IF netOk THEN 2 ELSE 0, dlOk, TRUE, listOk, failRm)
          /\ Apply("lombok_fetch", "-",
                   try_to_fetch_and_install_latest_lombok(netOk, dlOk, listOk, failRm))

LanguageServerBinaryPath ==
    /\ art = "jdtls"
    /\ \E net \in 0..2, dlOk \in BOOLEAN, execOk \in BOOLEAN, listOk \in BOOLEAN,
          failRm \in SUBSET (Stale(entries, marker, latest)) :
          /\ Relevant(net, dlOk, execOk, listOk, failRm)
          /\ Apply("jdtls_path", "-",
                   language_server_binary_path(net, dlOk, execOk, listOk, failRm))

LombokJarPath ==
    /\ art = "lombok"
    /\ \E netOk \in BOOLEAN, dlOk \in BOOLEAN, listOk \in BOOLEAN,
          failRm \in SUBSET (Stale(entries, marker, latest)) :
          /\ Relevant(IF netOk THEN 2 ELSE 0, dlOk, TRUE, listOk, failRm)
          /\ Apply("lombok_path", "-", lombok_jar_path(netOk, dlOk, listOk, failRm))

ResolveWithPolicy ==
    /\ art \in {"jdtls", "lombok"}
    /\ \E mode \in Modes, net \in 0..2, dlOk \in BOOLEAN, execOk \in BOOLEAN,
          listOk \in BOOLEAN, failRm \in SUBSET (Stale(entries, marker, latest)) :
          /\ art = "lombok" => net # 1 /\ execOk
          /\ Relevant(net, dlOk, execOk, listOk, failRm)
          /\ Apply("resolve", mode,
                   resolve_with_policy(art, mode, net, dlOk, execOk, listOk, failRm))

DebuggerGetOrDownload ==
    /\ art = "debugger"
    /\ \E mode \in Modes, dlOk \in BOOLEAN :
          Apply("debugger", mode, get_or_download(mode, dlOk))

DebuggerLatestOfficial ==
    /\ art = "debugger"
    /\ \E netOk \in BOOLEAN, dlOk \in BOOLEAN, rmOk \in BOOLEAN,
          pick \in Names(entries) \cup
                   (IF marker # None \/ entries = <<>> THEN {ONCE_CHECK_MARKER} ELSE {}) :
          Apply("debugger_official", "-",
                get_or_download_latest_official(netOk, dlOk, rmOk, pick))

\* the version source publishes another version
Publish ==
    /\ \E v \in Versions : v # latest /\ latest' = v
    /\ UNCHANGED <<art, rootDir, entries, marker, cache, last, prev, inj, call>>

\* a version entry disappears out of band (manual deletion, another session's prune)
OutOfBandDelete ==
    /\ \E v \in Names(entries) :
          LET Other(e) == e # v IN entries' = SelectSeq(entries, Other)
    /\ UNCHANGED <<art, rootDir, marker, latest, cache, last, prev, inj, call>>

\* the host process restarts: Java::new / Debugger::new, the disk is kept
Restart ==
    /\ cache # None
    /\ cache' = None
    /\ UNCHANGED <<art, rootDir, entries, marker, latest, last, prev, inj, call>>

Next ==
    \/ ResolveJdk
    \/ TryFetchJdtls
    \/ TryFetchLombok
    \/ LanguageServerBinaryPath
    \/ LombokJarPath
    \/ ResolveWithPolicy
    \/ DebuggerGetOrDownload
    \/ DebuggerLatestOfficial
    \/ Publish
    \/ OutOfBandDelete
    \/ Restart

Spec == Init /\ [][Next]_vars

----------------------------------------------------------------------------
\* the debugger plugin and the initialization options of one session

\* a resolver call whose report is not kept: only the disk and the cached
\* path change
ApplyQuiet(o) ==
    /\ rootDir' = o.rootDir
    /\ entries' = o.entries
    /\ marker' = o.marker
    /\ cache' = o.cache
    /\ UNCHANGED <<art, latest, last, prev, inj, call>>

InitInject ==
    /\ art = "debugger"
    /\ rootDir = FALSE
    /\ entries = <<>>
    /\ marker = None
    /\ latest \in Versions
    /\ cache = None
    /\ last = NoCall
    /\ prev = Summary(NoCall)
    /\ inj = NoInject
    /\ call = NoCallYet

\* language_server_command resolves the debugger plugin
LoadDebugger ==
    \E mode \in Modes, dlOk \in BOOLEAN : ApplyQuiet(get_or_download(mode, dlOk))

LoadLatestOfficial ==
    \E netOk \in BOOLEAN, dlOk \in BOOLEAN, rmOk \in BOOLEAN,
       pick \in Names(entries) \cup
                (IF marker # None \/ entries = <<>> THEN {ONCE_CHECK_MARKER} ELSE {}) :
       ApplyQuiet(get_or_download_latest_official(netOk, dlOk, rmOk, pick))

\* the host asks for the initialization options; the options come from the
\* user's settings, or are the options the previous call returned
LanguageServerInitializationOptions ==
    /\ \E o \in OptionsInputs \cup (IF inj.res = "Ok" THEN {inj.out} ELSE {}) :
          inj' = InjectReport(o, language_server_initialization_options(cache, o))
    /\ UNCHANGED <<art, rootDir, entries, marker, latest, cache, last, prev, call>>

NextInject ==
    \/ LoadDebugger
    \/ LoadLatestOfficial
    \/ LanguageServerInitializationOptions
    \/ Publish
    \/ OutOfBandDelete
    \/ Restart

SpecInject == InitInject /\ [][NextInject]_vars

----------------------------------------------------------------------------
\* one debug configuration handed to the debug adapter

InitConfig ==
    /\ art = "debugger"
    /\ rootDir = TRUE
    /\ entries = <<ForkVersion>>
    /\ marker = None
    /\ latest = ForkVersion
    /\ cache = ForkVersion
    /\ last = NoCall
    /\ prev = Summary(NoCall)
    /\ inj \in {PendingConfig(c.cfg, c.root) : c \in ConfigInputs}
    /\ call = NoCallYet

\* An answer the call never reads is fixed, so one outcome is not enumerated
\* many times: no entry-point query unless the configuration is a launch, no
\* classpath query unless an entry point was selected and a scope is present.
RelevantAnswers(cfg, mainResp, cpResp) ==
    LET launch == cfg.json /\ ~is_not_launch(cfg) /\ parses_as_launch_config(cfg)
        cp0 == IF cfg.classPaths.set THEN cfg.classPaths.items ELSE <<AUTO_SCOPE>>
        asksClassPath ==
            /\ launch /\ mainResp.kind = "ok"
            /\ select_entry(cfg, matching_entries(cfg, mainResp.value)).ok
            /\ HasScope(cp0)
    IN /\ ~launch => mainResp = Response("nolsp", <<>>)
       /\ ~asksClassPath => cpResp = Response("err", <<>>)

InjectConfig ==
    /\ inj.op = "config_pending"
    /\ \E mainResp \in MainClassResponses, cpResp \in ClassPathResponses :
          /\ RelevantAnswers(inj.cfg, mainResp, cpResp)
          /\ inj' = ConfigReport(inj.cfg, inj.root, mainResp, cpResp,
                                 inject_config(inj.cfg, inj.root, mainResp, cpResp))
    /\ UNCHANGED <<art, rootDir, entries, marker, latest, cache, last, prev, call>>

NextConfig == InjectConfig

SpecConfig == InitConfig /\ [][NextConfig]_vars

----------------------------------------------------------------------------
\* one response of a version source and the parser that reads it

InitVersion ==
    /\ art \in {"jdtls", "lombok"}
    /\ rootDir = FALSE
    /\ entries = <<>>
    /\ marker = None
    /\ latest = ForkVersion
    /\ cache = None
    /\ last = NoCall
    /\ prev = Summary(NoCall)
    /\ inj = NoInject
    /\ call \in {PendingResponse("listing", es) : es \in SeqsUpTo(ListingEntries, MaxListed)}
            \cup {PendingResponse("latest.txt", b) : b \in BuildBodies}
            \cup {PendingResponse("tags", t) : t \in TagResponses}

Parse(kind, op, r) ==
    /\ call.op = "pending" /\ call.kind = kind
    /\ call' = ParseReport(op, call.input, r)
    /\ UNCHANGED <<art, rootDir, entries, marker, latest, cache, last, prev, inj>>

\* try_to_fetch_and_install_latest_jdtls reads the milestones page
ScanListing ==
    /\ art = "jdtls"
    /\ Parse("listing", "latest_jdtls_version",
             latest_jdtls_version(listing_text(call.input)))

\* try_to_fetch_and_install_latest_jdtls reads latest.txt
ReadLatestBuild ==
    /\ art = "jdtls"
    /\ Parse("latest.txt", "build_directory", build_directory(call.input))

\* try_to_fetch_and_install_latest_lombok reads the tags
ReadLombokTags ==
    /\ art = "lombok"
    /\ Parse("tags", "latest_lombok_version", latest_lombok_version(call.input))

\* get_latest_versions_from_tag reads the tags of a repository
GetLatestVersionsFromTag ==
    /\ Parse("tags", "get_latest_versions_from_tag",
             get_latest_versions_from_tag(call.input))

NextVersion ==
    \/ ScanListing
    \/ ReadLatestBuild
    \/ ReadLombokTags
    \/ GetLatestVersionsFromTag

SpecVersion == InitVersion /\ [][NextVersion]_vars

----------------------------------------------------------------------------
\* locating the runtime and building the launch arguments at a server start

InitLaunch ==
    /\ art = "jdtls"
    /\ rootDir = FALSE
    /\ entries = <<>>
    /\ marker = None
    /\ latest = ForkVersion
    /\ cache = None
    /\ last = NoCall
    /\ prev = Summary(NoCall)
    /\ inj = NoInject
    /\ call \in {PendingStart(env) : env \in Environments}

\* an answer that is not asked for is the first of its kind
DefaultJdk == [res |-> "Err", bin |-> Absent]

RelevantJdk(r, jdk) == r.asked_jdk \/ jdk = DefaultJdk

RelevantLaunch(r, a) ==
    /\ RelevantJdk(r.exe, a.jdk)
    /\ r.exe.res = "Ok" \/ a.version_output = None
    /\ (r.major # None /\ r.major >= MIN_JAVA) \/ (a.jar_path = Absent /\ a.jvm_args = <<>>)
    /\ a.jar_path # Absent \/ a.jdtls_data_path = Absent

AllLaunchAnswers ==
    {LaunchAnswers(jdk, v, jar, data, jvm) :
        jdk \in JdkAnswers, v \in {None} \cup Majors, jar \in {Absent, EquinoxLauncher},
        data \in {Absent, JdtlsDataPath}, jvm \in SeqsUpTo(JvmArgs, MaxJvmArgs)}

Locate(op, jdk, r) ==
    /\ RelevantJdk(r, jdk)
    /\ call' = LocateReport(op, call.input, jdk, r)
    /\ UNCHANGED <<art, rootDir, entries, marker, latest, cache, last, prev, inj>>

Build(op, a, r) ==
    /\ RelevantLaunch(r, a)
    /\ call' = BuildReport(op, call.input, a, r)
    /\ UNCHANGED <<art, rootDir, entries, marker, latest, cache, last, prev, inj>>

\* util.rs get_java_executable
GetJavaExecutable ==
    /\ call.op = "pending" /\ call.kind = "start"
    /\ \E jdk \in JdkAnswers :
          Locate("get_java_executable", jdk, get_java_executable(call.input, jdk))

\* java.rs get_java_executable
JavaGetJavaExecutable ==
    /\ call.op = "pending" /\ call.kind = "start"
    /\ Locate("java_get_java_executable", DefaultJdk, java_get_java_executable(call.input))

\* jdtls.rs build_jdtls_launch_args
BuildJdtlsLaunchArgs ==
    /\ call.op = "pending" /\ call.kind = "start"
    /\ \E a \in AllLaunchAnswers :
          Build("build_jdtls_launch_args", a, build_jdtls_launch_args(call.input, a))

\* java.rs Java::build_jdtls_launch_args
JavaBuildJdtlsLaunchArgs ==
    /\ call.op = "pending" /\ call.kind = "start"
    /\ \E a \in AllLaunchAnswers :
          Build("java_build_jdtls_launch_args", a,
                java_build_jdtls_launch_args(call.input, a))

NextLaunch ==
    \/ GetJavaExecutable
    \/ JavaGetJavaExecutable
    \/ BuildJdtlsLaunchArgs
    \/ JavaBuildJdtlsLaunchArgs

SpecLaunch == InitLaunch /\ [][NextLaunch]_vars

----------------------------------------------------------------------------
\* resolves gated by an update mode, and resolvers that ask a version source

ModeOps == {"jdk", "debugger", "resolve"}

SourceOps == {"jdk", "jdtls_fetch", "lombok_fetch", "jdtls_path", "lombok_path",
              "resolve", "debugger_official"}

PruneOps == {"jdk", "jdtls_fetch", "lombok_fetch", "jdtls_path", "lombok_path", "resolve"}

NoNetwork(r) == r.fetches = 0 /\ r.downloads = "none"

\* C1: with mode Never a resolve returns the local install when one exists and
\* an error when none exists, and makes no version-source request and no
\* download in either case.
C1_NeverUsesLocalOrFails ==
    (last.op \in ModeOps /\ last.mode = "Never") =>
        /\ NoNetwork(last)
        /\ last.hadLocal # None => (last.res = "Ok" /\ last.path = last.hadLocal)
        /\ last.hadLocal = None => last.res = "Err"
        /\ ~last.changed

C1_Witness ==
    /\ last.op = "debugger" /\ last.mode = "Never"
    /\ last.hadLocal # None /\ last.res = "Ok"

\* C2: with mode Once the policy decision is UseLocal (the local path) when a
\* local install exists, Fail when none exists and the .update_checked marker
\* does, Download otherwise; the first two outcomes make no network request.
C2_OncePolicy ==
    (last.op \in ModeOps /\ last.mode = "Once") =>
        /\ last.hadLocal # None =>
              (last.decision = "UseLocal" /\ last.res = "Ok"
               /\ last.path = last.hadLocal /\ NoNetwork(last))
        /\ (last.hadLocal = None /\ last.hadMarker) =>
              (last.decision = "Fail" /\ last.res = "Err" /\ NoNetwork(last))
        /\ (last.hadLocal = None /\ ~last.hadMarker) => last.decision = "Download"

C2_Witness ==
    /\ last.op = "resolve" /\ last.mode = "Once"
    /\ last.hadLocal = None /\ last.hadMarker /\ last.decision = "Fail"

FreshOnce(r) == r.mode = "Once" /\ r.hadLocal = None /\ ~r.hadMarker

C4_MarkerAfterOnceDownload ==
    (last.op \in ModeOps /\ last.mode = "Once" /\ last.res = "Ok"
     /\ last.downloads = "ok") =>
        (last.markerAfter # None /\ last.markerAfter = last.path)

\* C5: with mode Always every resolve asks the version source, also when a
\* local install exists, and downloads only a version that is not on disk.
C5_AlwaysConsultsSource ==
    (last.op \in ModeOps /\ last.mode = "Always") =>
        /\ last.fetches >= 1
        /\ last.downloads # "none" => (last.fetched # None /\ ~last.hadLatest)

\* C6: when the version-source request of a resolve fails, the resolve returns
\* a local installation if one exists under the install root, and the error
\* only if none exists.
C6_FallbackOnFetchFailure ==
    (last.op \in {"jdk", "jdtls_path", "lombok_path", "debugger_official", "resolve"}
     /\ last.fetches >= 1 /\ last.fetched = None) =>
        IF last.hadLocal # None
        THEN last.res = "Ok" /\ last.pathOnDisk
        ELSE last.res = "Err"

\* C7: when the version the version source returns is already on disk, the
\* resolve returns its path without download, without prune and without any
\* change to the install root.
C7_ReuseInstalled ==
    (last.op \in SourceOps /\ last.fetched # None /\ last.hadLatest) =>
        /\ last.res = "Ok" /\ last.path = last.fetched
        /\ last.downloads = "none" /\ last.pruned = "no"
        /\ ~last.changed

C7_Witness ==
    /\ last.op = "jdk" /\ last.mode = "Always"
    /\ last.fetched # None /\ last.hadLatest /\ last.res = "Ok"

\* C8: when the version the version source returns is not on disk, the resolve
\* downloads it, and succeeds if the download succeeds, whatever the state of
\* the install root (absent, empty, holding an older version).
C8_DownloadsMissingVersion ==
    (last.op \in SourceOps \cup {"debugger"}) =>
        /\ (last.fetched # None /\ ~last.hadLatest) => last.downloads # "none"
        /\ last.downloads = "ok" => (last.res = "Ok" /\ last.pathOnDisk)

C10_PruneFailureNotPropagated ==
    (last.op \in PruneOps /\ last.pruned \in {"listErr", "rmErr"}) =>
        (last.res = "Ok" /\ last.path = last.fetched /\ last.pathOnDisk)

C10_Witness ==
    /\ last.op = "jdtls_fetch" /\ last.pruned = "listErr" /\ last.hadOther
    /\ last.res = "Ok" /\ last.leftOther

----------------------------------------------------------------------------
\* bundle injection

InitOptionsUsedPath(r) ==
    /\ r.op = "init_options" /\ r.path # None /\ r.res = "Ok"
    /\ Count(r.out.bundles.items, canonical_path(r.path)) > 0

\* C11: a cached plugin path is put into the initialization options only after
\* a check that the jar still exists as a file; a path whose jar was deleted
\* out of band is treated as absent.
C11_CachedPathChecked ==
    InitOptionsUsedPath(inj) => inj.onDisk

\* C12: injecting into the output of an injection made with the same plugin
\* path returns that output unchanged, and the path occurs as often as after
\* the first call.
C12_InjectionIdempotent ==
    inj.again =>
        /\ inj.res = "Ok"
        /\ inj.out = inj.opts
        /\ Count(inj.out.bundles.items, canonical_path(inj.path)) = inj.prevCount

C12_Witness ==
    /\ inj.again /\ inj.res = "Ok" /\ inj.prevCount = 1
    /\ Len(inj.out.bundles.items) > 1

BundlesAbsentOrArray(o) == o.bundles.kind \in {"absent", "array"}

\* C13: for every options input whose "bundles" is absent or an array, also
\* one that lists the plugin path more than once, the output lists the
\* plugin's canonical path exactly once.
C13_PathExactlyOnce ==
    (inj.op = "init_options" /\ inj.path # None /\ BundlesAbsentOrArray(inj.opts)) =>
        /\ inj.res = "Ok"
        /\ Count(inj.out.bundles.items, canonical_path(inj.path)) = 1

\* C14: injection changes only "bundles": every other field of the options
\* keeps its input value, and the entries "bundles" already had keep their
\* values and their order (the output array starts with the input array).
C14_OnlyBundlesChanged ==
    (inj.op = "init_options" /\ inj.path # None /\ inj.res = "Ok") =>
        /\ inj.out.kind = "object"
        /\ inj.out.other = inj.opts.other
        /\ inj.out.bundles.kind = "array"
        /\ Len(inj.out.bundles.items) >= Len(inj.opts.bundles.items)
        /\ SubSeq(inj.out.bundles.items, 1, Len(inj.opts.bundles.items))
              = inj.opts.bundles.items

C14_Witness ==
    /\ inj.op = "init_options" /\ inj.path # None /\ inj.res = "Ok"
    /\ inj.opts.other = "set" /\ Len(inj.opts.bundles.items) = 2
    /\ inj.opts.bundles.items[1] = OtherBundle
    /\ Len(inj.out.bundles.items) = 3

\* C15: when the options carry a "bundles" field that is not an array, the
\* injection returns an error and no options; it does not abort.
C15_MalformedBundlesIsError ==
    (inj.op = "init_options" /\ inj.path # None
     /\ inj.opts.bundles.kind \in {"string", "null"}) =>
        (inj.res = "Err" /\ inj.out = NoOptions)

C15_Witness ==
    /\ inj.op = "init_options" /\ inj.path # None
    /\ inj.opts.bundles.kind = "string" /\ inj.opts.other = "set" /\ inj.res = "Err"

----------------------------------------------------------------------------
\* debug configuration injection

Injected == inj.op = "inject_config" /\ inj.cfg.json

LaunchInjected == Injected /\ inj.cfg.request = "launch"

\* the entries of the entry-point answer that match the configured hints
Remaining == matching_entries(inj.cfg, inj.mainResp.value)

\* C16 as stated: a configuration whose request field is not "launch" (attach,
\* absent, not a string) is returned unchanged, and no query is sent to the
\* language server.
C16_AsStated ==
    (Injected /\ inj.cfg.request # "launch") =>
        (inj.res = "Ok" /\ inj.out = inj.cfg /\ inj.queries = <<>>)

\* C16 amended: a configuration whose request field is a string other than
\* "launch" is returned unchanged; one whose request field is absent or not a
\* string is rejected with a parse error; neither sends a query to the
\* language server.
C16_NonLaunchPassesThrough ==
    (Injected /\ inj.cfg.request # "launch") =>
        /\ inj.queries = <<>>
        /\ IF inj.cfg.request \in {Absent, "<number>"}
           THEN inj.res = "Err" /\ inj.err = "parse_launch" /\ inj.out = NoConfig
           ELSE inj.res = "Ok" /\ inj.out = inj.cfg

C16_Witness ==
    /\ Injected /\ inj.cfg.request = "attach" /\ inj.res = "Ok"
    /\ inj.cfg.classPaths.items = <<TEST_SCOPE>> /\ inj.cfg.cwd # Absent
    /\ inj.out = inj.cfg /\ inj.queries = <<>>

\* C17: for a launch configuration, when more than one returned entry point
\* matches the configured hints (all of them when no hint is set), the call
\* fails with the multiple-entry-points error and returns no configuration.
C17_AmbiguousEntryPointFails ==
    (LaunchInjected /\ inj.mainResp.kind = "ok" /\ Len(Remaining) > 1) =>
        (inj.res = "Err" /\ inj.err = "multiple" /\ inj.out = NoConfig)

C17_Witness ==
    /\ LaunchInjected /\ inj.mainResp.kind = "ok"
    /\ inj.cfg.mainClass = "A" /\ inj.cfg.projectName = Absent
    /\ Len(inj.mainResp.value) = 2 /\ Len(Remaining) = 2
    /\ inj.err = "multiple"

\* C18: for a launch configuration that is injected successfully, mainClass
\* and projectName of the output are those of the single remaining candidate,
\* and those of the input (absent stays absent) when no candidate remains.
C18_EntryPointSelected ==
    (LaunchInjected /\ inj.res = "Ok") =>
        /\ Len(Remaining) = 1 =>
              /\ inj.out.mainClass = Remaining[1].main_class
              /\ inj.out.projectName = Remaining[1].project_name
        /\ Len(Remaining) = 0 =>
              /\ inj.out.mainClass = inj.cfg.mainClass
              /\ inj.out.projectName = inj.cfg.projectName

C18_Witness ==
    /\ LaunchInjected /\ inj.res = "Ok"
    /\ inj.cfg.mainClass = "A" /\ inj.cfg.projectName = Absent
    /\ Len(inj.mainResp.value) = 2 /\ Len(Remaining) = 1
    /\ inj.out.projectName = "Q"

\* C19: after a successful injection of a launch configuration the output
\* classPaths holds none of the scope markers $Test, $Auto, $Runtime, whatever
\* the input list and the classpath answer hold.
C19_NoScopeMarkers ==
    (LaunchInjected /\ inj.res = "Ok") =>
        \A i \in 1..Len(inj.out.classPaths.items) :
            inj.out.classPaths.items[i] \notin SCOPES

C19_Witness ==
    /\ LaunchInjected /\ inj.res = "Ok"
    /\ inj.cfg.classPaths.items = <<TEST_SCOPE>>
    /\ inj.cpResp.kind = "ok"
    /\ inj.cpResp.value = <<<<RUNTIME_SCOPE>>, <<"a.jar", "a.jar">>>>
    /\ inj.out.classPaths.items = <<"a.jar">>

RECURSIVE FirstOccurrences(_)
FirstOccurrences(l) ==
    IF l = <<>> THEN <<>>
    ELSE LET h == Head(l)
             NotHead(x) == x # h
         IN <<h>> \o FirstOccurrences(SelectSeq(Tail(l), NotHead))

\* every classpath entry the call collected: the input list (the auto scope
\* when unset) followed by the lists of the classpath answer
Collected ==
    LET cp0 == IF inj.cfg.classPaths.set THEN inj.cfg.classPaths.items ELSE <<AUTO_SCOPE>>
    IN IF HasScope(cp0) THEN extend_all(cp0, inj.cpResp.value) ELSE cp0

\* C20: after a successful injection of a launch configuration no entry occurs
\* twice in the output classPaths, adjacent or not, and the entries are in the
\* order of their first occurrence.
C20_NoDuplicates ==
    (LaunchInjected /\ inj.res = "Ok") =>
        inj.out.classPaths.items = FirstOccurrences(retain_non_scopes(Collected))

----------------------------------------------------------------------------
\* workspace-folder substitution and pass-through fields

RECURSIVE JoinPieces(_, _)
\* a string with every placeholder replaced by the workspace root
JoinPieces(ps, root) ==
    IF ps = <<>> THEN ""
    ELSE (IF Head(ps) = PLACEHOLDER THEN root ELSE Head(ps)) \o JoinPieces(Tail(ps), root)

Substituted(s, root) == IF s = Absent THEN Absent ELSE JoinPieces(Pieces(s), root)

\* C21: in the output of a launch configuration every ${workspaceFolder} is
\* replaced by the workspace root path: a cwd of "${workspaceFolder}/src" is
\* read as "<root>/src", an unset cwd as the workspace root.
C21_WorkspaceFolderSubstituted ==
    (LaunchInjected /\ inj.res = "Ok") =>
        /\ inj.out.cwd = (IF inj.cfg.cwd = Absent THEN inj.root
                          ELSE Substituted(inj.cfg.cwd, inj.root))
        /\ inj.out.args = Substituted(inj.cfg.args, inj.root)

\* C22: every field of a launch configuration other than mainClass,
\* projectName, classPaths and cwd, declared by the extension or not, is in
\* the output with its input value, up to workspace-folder substitution.
C22_OtherFieldsPreserved ==
    (LaunchInjected /\ inj.res = "Ok") =>
        /\ inj.out.request = inj.cfg.request
        /\ inj.out.args = Substituted(inj.cfg.args, inj.root)
        /\ inj.out.extra = Substituted(inj.cfg.extra, inj.root)

----------------------------------------------------------------------------
\* version parsing

RECURSIVE Components(_, _)
\* the dot-separated components of an entry (cur = the component being read)
Components(e, cur) ==
    IF e = <<>> THEN <<cur>>
    ELSE IF Head(e) = "." THEN <<cur>> \o Components(Tail(e), <<>>)
    ELSE Components(Tail(e), Append(cur, Head(e)))

IsU32(ds) ==
    /\ ds # <<>>
    /\ \A i \in 1..Len(ds) : is_numeric(ds[i])
    /\ ~NumLess(U32_MAX, StripLeadingZeros(ds))

\* an entry major.minor.patch of three numbers
WellFormed(e) ==
    LET cs == Components(e, <<>>) IN Len(cs) = 3 /\ \A i \in 1..3 : IsU32(cs[i])

TripleOf(e) ==
    LET cs == Components(e, <<>>) IN [i \in 1..3 |-> StripLeadingZeros(cs[i])]

Listed(es) == {es[i] : i \in 1..Len(es)}

WellFormedVersions(es) == {TripleOf(e) : e \in {x \in Listed(es) : WellFormed(x)}}

IsGreatest(v, vs) == v \in vs /\ \A w \in vs : w = v \/ VersionLess(w, v)

Scanned == call.op = "latest_jdtls_version"

\* C23: the latest version read from a listing is the greatest (major, minor,
\* patch) triple under numeric comparison of the components: among 1.9.0,
\* 1.10.0 and 1.2.5 it is 1.10.0.
C23_GreatestVersionSelected ==
    /\ (Scanned /\ call.res = "Ok") =>
          \E v \in WellFormedVersions(call.input) :
              /\ IsGreatest(v, WellFormedVersions(call.input))
              /\ call.value = format_version(v)
    /\ (Scanned /\ call.input # <<>> /\ \A e \in Listed(call.input) : WellFormed(e)) =>
          call.res = "Ok"

C23_Witness ==
    /\ Scanned /\ call.res = "Ok"
    /\ call.input = <<<<"1", ".", "9", ".", "0">>, <<"1", ".", "1", "0", ".", "0">>,
                      <<"1", ".", "2", ".", "5">>>>
    /\ call.value = <<"1", ".", "1", "0", ".", "0">>

\* C24: a malformed entry in the listing is skipped and does not abort the
\* scan: the lookup returns the greatest well-formed version of the listing.
C24_MalformedEntrySkipped ==
    (Scanned /\ WellFormedVersions(call.input) # {}) =>
        /\ call.res = "Ok"
        /\ \E v \in WellFormedVersions(call.input) :
              /\ IsGreatest(v, WellFormedVersions(call.input))
              /\ call.value = format_version(v)

\* C25: no response of a version endpoint makes a resolver abort: every
\* parser returns Ok or Err.
C25_NoAbortOnAnyResponse ==
    call.op \in {"latest_jdtls_version", "build_directory", "latest_lombok_version",
                 "get_latest_versions_from_tag"} =>
        call.res # "Abort"

----------------------------------------------------------------------------
\* the runtime locator

LocatorCall == call.op = "get_java_executable"

\* bin/<java executable> under a runtime home
HomeExecutable(env, home) == join(join(home, "bin"), get_java_exec_name(env.os))

\* the configured runtime home holds its executable
HomeUsable(env) ==
    /\ get_java_home(env) # Absent
    /\ is_file(env, HomeExecutable(env, get_java_home(env)))

\* the order of the steps, and that the download is asked only as the last
\* permitted step
LocatorOrder ==
    LET env == call.input
        home == get_java_home(env)
    IN
    /\ HomeUsable(env) =>
          /\ call.res = "Ok" /\ call.value = HomeExecutable(env, home)
          /\ ~call.asked_jdk
    /\ (home = Absent /\ env.which_java # Absent) =>
          /\ call.res = "Ok" /\ call.value = env.which_java
          /\ ~call.asked_jdk
    /\ (home = Absent /\ env.which_java = Absent /\ env.jdk_auto_download
            /\ call.jdk.res = "Ok") =>
          /\ call.res = "Ok" /\ call.value = join(call.jdk.bin, get_java_exec_name(env.os))
          /\ call.asked_jdk
    /\ ~env.jdk_auto_download => ~call.asked_jdk

NothingFound(env) == get_java_home(env) = Absent /\ env.which_java = Absent

C27_ConfiguredHomeValidated ==
    /\ LocatorCall =>
          LET env == call.input
              exe == HomeExecutable(env, get_java_home(env))
          IN
          (get_java_home(env) # Absent /\ ~is_file(env, exe)) =>
              /\ ~(call.res = "Ok" /\ call.value = exe)
              /\ env.which_java # Absent => (call.res = "Ok" /\ call.value = env.which_java)
    /\ call.op = "java_get_java_executable" =>
          LET env == call.input
              exe == HomeExecutable(env, java_get_java_home(env))
          IN
          (java_get_java_home(env) # Absent /\ ~is_file(env, exe)) =>
              /\ ~(call.res = "Ok" /\ call.value = exe)
              /\ env.which_java # Absent => (call.res = "Ok" /\ call.value = env.which_java)

----------------------------------------------------------------------------
\* the launch arguments

BuildCall == call.op \in {"build_jdtls_launch_args", "java_build_jdtls_launch_args"}

\* a build that assembled the arguments of the self-managed server
BuiltArgs == BuildCall /\ call.input.which_jdtls = Absent /\ call.res = "Ok"

\* C28: a located runtime below major version 21 makes the build fail when
\* the runtime download is not enabled, and does not make it fail when the
\* download is enabled.
C28_OldRuntimeRejectedOrReplaced ==
    (/\ call.op = "build_jdtls_launch_args"
     /\ call.input.which_jdtls = Absent
     /\ call.major # None /\ call.major < 21 /\ ~call.exe.asked_jdk) =>
        IF call.input.jdk_auto_download
        THEN ~(call.res = "Err" /\ call.err = JavaTooOldError)
        ELSE call.res = "Err"

InVector(args, x) == \E i \in 1..Len(args) : args[i] = x

\* C29: in every argument vector of the self-managed server the runtime
\* executable is first, the extra VM arguments follow the fixed flags and
\* precede "-jar", and "-jar <launcher>" is directly followed by
\* "-data <data directory>".
C29_ArgumentOrder ==
    BuiltArgs =>
        LET args == call.value
            jvm_args == call.answers.jvm_args
            fixed == fixed_args(get_shared_config_path(call.input.os, JdtlsBasePath))
            p == CHOOSE i \in 1..Len(args) : args[i] = "-jar"
        IN
        /\ InVector(args, "-jar")
        /\ args[1] = call.exe.path
        /\ SubSeq(args, 2, 1 + Len(fixed)) = fixed
        /\ SubSeq(args, 2 + Len(fixed), p - 1) = jvm_args
        /\ p + 3 <= Len(args)
        /\ SubSeq(args, p, p + 3) =
              <<"-jar", call.answers.jar_path, "-data", call.answers.jdtls_data_path>>

C29_Witness ==
    /\ BuiltArgs
    /\ call.op = "build_jdtls_launch_args"
    /\ call.answers.jvm_args = <<"-javaagent:/ext/lombok/lombok-1.18.jar">>
    /\ call.value[1] = JavaOnPath
    /\ call.value[15] = "-javaagent:/ext/lombok/lombok-1.18.jar"
    /\ call.value[16] = "-jar"

\* C30: the two XML entity size flags are in the argument vector exactly when
\* the major version of the runtime is at least 24.
C30_XmlFlagsFrom24 ==
    BuiltArgs =>
        /\ InVector(call.value, "-Djdk.xml.maxGeneralEntitySizeLimit=0") <=> call.major >= 24
        /\ InVector(call.value, "-Djdk.xml.totalEntitySizeLimit=0") <=> call.major >= 24

C30_Witness ==
    /\ BuiltArgs
    /\ call.major = 24
    /\ InVector(call.value, "-Djdk.xml.maxGeneralEntitySizeLimit=0")
    /\ InVector(call.value, "-Djdk.xml.totalEntitySizeLimit=0")

\* the classpath queries that an injection sent
ClassPathQueries ==
    LET IsClassPathQuery(q) == q.command = "vscode.java.resolveClasspath"
    IN SelectSeq(inj.queries, IsClassPathQuery)

\* the injection got as far as the classpath step: the entry point is resolved
ReachedClassPath == LaunchInjected /\ inj.mainResp.kind = "ok" /\ Len(Remaining) <= 1

GivenHas(scope_marker) ==
    /\ inj.cfg.classPaths.set
    /\ \E i \in 1..Len(inj.cfg.classPaths.items) : inj.cfg.classPaths.items[i] = scope_marker

----------------------------------------------------------------------------
\* the checked-once marker of the jdk resolver

\* C40: the checked-once marker is written only after the version lookup and
\* the install succeeded: a Once-mode resolve that fails at the lookup or at
\* the download leaves no marker, and the next Once-mode resolve asks the
\* network again.
C40_MarkerOnlyAfterSuccess ==
    /\ (last.op = "jdk" /\ ~last.hadMarker /\ last.markerAfter # None) =>
          (last.res = "Ok" /\ last.fetched # None /\ last.pathOnDisk
           /\ last.markerAfter = last.path)
    /\ (last.op = "jdk" /\ FreshOnce(last) /\ last.res = "Err") =>
          (last.markerAfter = None /\ last.fetches = 1)
    /\ (prev = "onceFreshErr" /\ last.op = "jdk" /\ last.mode = "Once") =>
          (~last.hadMarker /\ last.fetches = 1)

C40_Witness ==
    /\ prev = "onceFreshErr" /\ last.op = "jdk" /\ last.mode = "Once"
    /\ last.fetches = 1 /\ last.downloads = "failed" /\ last.markerAfter = None

----------------------------------------------------------------------------
\* removal of stale versions

\* C33: stale versions are removed only after the new version was downloaded:
\* a resolve whose download did not succeed deletes no entry of the install
\* root, so the previous local install is still there.
C33_RemovalOnlyAfterDownload ==
    (last.op # "none" /\ last.downloads # "ok") => ~last.lostEntry

----------------------------------------------------------------------------
\* the server install root with the files inside its build directories

\* a build directory under jdtls/ and whether bin/<binary_name> is a file in it
BuildDir(v, binary) == [v |-> v, binary |-> binary]

\* the directory listings of jdtls/, in creation order, no version twice
BuildDirs ==
    {<<>>}
        \cup {<<BuildDir(v, b)>> : v \in Versions, b \in BOOLEAN}
        \cup {<<BuildDir(p[1], b), BuildDir(p[2], c)>> :
                p \in {q \in Versions \X Versions : q[1] # q[2]}, b \in BOOLEAN, c \in BOOLEAN}

\* fs::metadata(binary_path).is_ok_and(|stat| stat.is_file())
is_binary_file(dirs, v) == \E i \in 1..Len(dirs) : dirs[i].v = v /\ dirs[i].binary

\* java.rs find_latest_local_jdtls: bin/<binary_name> under the most recently
\* created subdirectory, whether or not that file exists
java_find_latest_local_jdtls(dirs) == IF dirs = <<>> THEN None ELSE dirs[Len(dirs)].v

\* download_file extracts the archive into build_path: the directory is
\* created, or filled, with the binary if the archive holds one
extract_into(dirs, build, hasBinary) ==
    IF \E i \in 1..Len(dirs) : dirs[i].v = build
    THEN [i \in 1..Len(dirs) |->
            IF dirs[i].v = build THEN BuildDir(build, dirs[i].binary \/ hasBinary) ELSE dirs[i]]
    ELSE Append(dirs, BuildDir(build, hasBinary))

\* the loop over fs::read_dir(prefix) that removes every other entry
java_prune(dirs, listOk, failRm, build) ==
    IF ~listOk THEN dirs
    ELSE LET Kept(d) == d.v = build \/ d.v \in failRm IN SelectSeq(dirs, Kept)

\* result of a resolve on this root: Ok(path) or Err, the root and the cached
\* path it leaves
Resolved(res, path, dirs, cached) ==
    [res |-> res, path |-> path, dirs |-> dirs, cached |-> cached]

\* java.rs try_to_fetch_and_install_latest_jdtls
java_try_to_fetch_and_install_latest_jdtls(dirs, build, net, dlOk, hasBinary, execOk, listOk, failRm) ==
    IF net < 2 THEN Resolved("Err", None, dirs, None)
    ELSE IF is_binary_file(dirs, build) THEN Resolved("Ok", build, dirs, None)
    ELSE IF ~dlOk THEN Resolved("Err", None, dirs, None)
    ELSE
      LET dirs1 == extract_into(dirs, build, hasBinary) IN
      IF ~is_binary_file(dirs1, build) \/ ~execOk  \* make_file_executable(..)?
      THEN Resolved("Err", None, dirs1, None)
      ELSE Resolved("Ok", build, java_prune(dirs1, listOk, failRm, build), None)

\* the match on the fetch result in java.rs language_server_binary_path
java_fallback(r, cached) ==
    LET local_version == java_find_latest_local_jdtls(r.dirs) IN
    IF r.res = "Ok" THEN [r EXCEPT !.cached = r.path]
    ELSE IF local_version # None
    THEN Resolved("Ok", local_version, r.dirs, local_version)
    ELSE [r EXCEPT !.cached = cached]

\* java.rs Java::language_server_binary_path
java_language_server_binary_path(dirs, cached, build, net, dlOk, hasBinary, execOk, listOk, failRm) ==
    IF cached # None /\ is_binary_file(dirs, cached)
    THEN Resolved("Ok", cached, dirs, cached)
    ELSE java_fallback(
            java_try_to_fetch_and_install_latest_jdtls(dirs, build, net, dlOk, hasBinary,
                                                       execOk, listOk, failRm),
            cached)

\* an installed runtime jdk/<version>: the directory can be listed, it holds
\* the extracted directory (a name with "jdk" or "corretto"), and that one
\* holds bin
JdkInstall(readable, extracted, bin) ==
    [readable |-> readable, extracted |-> extracted, bin |-> bin]

JdkInstalls ==
    {JdkInstall(FALSE, FALSE, FALSE), JdkInstall(TRUE, FALSE, FALSE),
     JdkInstall(TRUE, TRUE, FALSE), JdkInstall(TRUE, TRUE, TRUE)}

\* jdk.rs get_jdk_bin_path: <install_path>/<extracted_dir>/bin
get_jdk_bin_path(install) ==
    IF ~install.readable \/ ~install.extracted THEN [res |-> "Err", exists |-> FALSE]
    ELSE [res |-> "Ok", exists |-> install.bin]

\* a root, a cached path and the build the version source reports, before a
\* resolve
PendingResolve(dirs, cached, build, install) ==
    [op |-> "pending", kind |-> "resolve", input |-> <<>>, res |-> "-", value |-> <<>>,
     dirs |-> dirs, cached |-> cached, build |-> build, install |-> install]

\* the report of a resolve: what it started from, its result, and whether the
\* returned path is the file (is_file) respectively the directory (is_dir)
\* that the caller expects
ResolveReport(op, p, r, file, dir) ==
    [op |-> op, kind |-> "-", input |-> p, res |-> r.res, value |-> r.path,
     is_file |-> file, is_dir |-> dir]


----------------------------------------------------------------------------
\* resolves on a server install root whose directories may lack the binary

InitLocal ==
    /\ art \in {"jdtls", "jdk"}
    /\ rootDir = FALSE
    /\ entries = <<>>
    /\ marker = None
    /\ latest = ForkVersion
    /\ cache = None
    /\ last = NoCall
    /\ prev = Summary(NoCall)
    /\ inj = NoInject
    /\ call \in {PendingResolve(dirs, cached, build, install) :
                    dirs \in BuildDirs, cached \in {None} \cup Versions,
                    build \in Versions, install \in JdkInstalls}
    /\ art = "jdtls" => call.install = JdkInstall(FALSE, FALSE, FALSE)
    /\ art = "jdk" => (call.dirs = <<>> /\ call.cached = None /\ call.build = 1)

HasDir(dirs, v) == \E i \in 1..Len(dirs) : dirs[i].v = v

ResolveLocal(op, r, file, dir) ==
    /\ call' = ResolveReport(op, call, r, file, dir)
    /\ UNCHANGED <<art, rootDir, entries, marker, latest, cache, last, prev, inj>>

\* java.rs Java::language_server_binary_path
JavaLanguageServerBinaryPath ==
    /\ art = "jdtls" /\ call.op = "pending" /\ call.kind = "resolve"
    /\ \E net \in 0..2, dlOk \in BOOLEAN, hasBinary \in BOOLEAN, execOk \in BOOLEAN,
          listOk \in BOOLEAN, failRm \in SUBSET Versions :
          /\ Relevant(net, dlOk, execOk, listOk, failRm)
          /\ ~dlOk => hasBinary
          /\ LET r == java_language_server_binary_path(call.dirs, call.cached, call.build,
                          net, dlOk, hasBinary, execOk, listOk, failRm)
             IN ResolveLocal("java_language_server_binary_path", r,
                             r.res = "Ok" /\ is_binary_file(r.dirs, r.path),
                             r.res = "Ok" /\ HasDir(r.dirs, r.path))

\* jdk.rs get_jdk_bin_path of an installed runtime
GetJdkBinPath ==
    /\ art = "jdk" /\ call.op = "pending" /\ call.kind = "resolve"
    /\ LET r == get_jdk_bin_path(call.install)
       IN ResolveLocal("get_jdk_bin_path", [res |-> r.res, path |-> None], FALSE, r.exists)

NextLocal ==
    \/ JavaLanguageServerBinaryPath
    \/ GetJdkBinPath

SpecLocal == InitLocal /\ [][NextLocal]_vars

----------------------------------------------------------------------------
\* C39: every Ok(path) a resolve returns exists on disk when it is returned:
\* the launcher file of the server (java.rs), the bin directory of the runtime
\* (jdk.rs).
C39_OkPathExists ==
    /\ (call.op = "java_language_server_binary_path" /\ call.res = "Ok") => call.is_file
    /\ (call.op = "get_jdk_bin_path" /\ call.res = "Ok") => call.is_dir

----------------------------------------------------------------------------
\* one extension instance: server start and the debug entry points

NotLoadedError == "Debugger plugin is not loaded"
NotInitializedError == "Lsp client is not initialized yet"

\* What a call finds outside the extension: a jdtls launcher on the search
\* path, whether the host answers the settings and the node binary, whether
\* lombok support is on and its jar resolves, whether a runtime of version 21
\* or later, the server install and its launcher jar resolve, and whether the
\* debugger plugin resolves.
StartEnv(launcher, cfgOk, lombok, javaOk, binOk, jarOk, dbgOk, nodeOk) ==
    [launcher |-> launcher, cfgOk |-> cfgOk, lombok |-> lombok, javaOk |-> javaOk,
     binOk |-> binOk, jarOk |-> jarOk, dbgOk |-> dbgOk, nodeOk |-> nodeOk]

StartEnvs ==
    {StartEnv(launcher, cfgOk, lombok, javaOk, binOk, jarOk, dbgOk, nodeOk) :
        launcher \in BOOLEAN, cfgOk \in BOOLEAN, lombok \in {"off", "Ok", "Err"},
        javaOk \in BOOLEAN, binOk \in BOOLEAN, jarOk \in BOOLEAN, dbgOk \in BOOLEAN,
        nodeOk \in BOOLEAN}

\* A debug request: the adapter name is "Java" or not, the configuration's
\* request is launch, attach or neither, and the collaborator answers or not.
DebugEnvs ==
    {[adapterOk |-> a, request |-> r, lspOk |-> l] :
        a \in BOOLEAN, r \in {"launch", "attach", "other"}, l \in BOOLEAN}

\* The extension instance and the report of its last call. crate is the crate
\* root the instance is built from; integrations is Java.integrations being
\* Some; loaded is Debugger.plugin_path (lib.rs: cached_debugger_path) being
\* Some; started tells that a server start resolved the plugin. Of the last
\* call: wasLoaded is loaded before it, env its inputs, command what the
\* returned command invokes, asked the lookups it made, requests the number
\* of requests it sent to the collaborator.
Session(crate, integrations, plugin, started) ==
    [op |-> "new", kind |-> "session", crate |-> crate, integrations |-> integrations,
     loaded |-> plugin, started |-> started, wasLoaded |-> plugin, env |-> <<>>,
     res |-> "-", err |-> Absent, command |-> Absent, asked |-> {}, requests |-> 0]

\* Extension::new
NewSession(crate) == Session(crate, FALSE, FALSE, FALSE)

Returned(s, op, env, res, err, command, asked, requests) ==
    [s EXCEPT !.op = op, !.env = env, !.res = res, !.err = err, !.command = command,
              !.asked = asked, !.requests = requests]

\* java.rs build_jdtls_launch_args when no launcher is on the search path:
\* runtime lookup, then language_server_binary_path, which creates the
\* integrations, then the launcher jar and the data path
java_self_managed(s, e) ==
    IF ~e.javaOk THEN [s |-> s, res |-> "Err", asked |-> {"runtime"}]
    ELSE IF ~e.binOk
    THEN [s |-> [s EXCEPT !.integrations = TRUE], res |-> "Err", asked |-> {"runtime", "server"}]
    ELSE [s |-> [s EXCEPT !.integrations = TRUE],
          res |-> IF e.jarOk THEN "Ok" ELSE "Err",
          asked |-> {"runtime", "server", "jar_data"}]

\* Debugger::get_or_download as the start calls it: Ok sets plugin_path
get_or_download_start(s, e) ==
    IF e.dbgOk THEN [s EXCEPT !.loaded = TRUE, !.started = TRUE] ELSE s

\* java.rs Java::language_server_command; switch_workspace stores the root
\* in the client and returns Ok
java_language_server_command(s0, e) ==
    LET op == "language_server_command"
        s == [s0 EXCEPT !.wasLoaded = s0.loaded]
        lombokAsked == IF e.lombok = "off" THEN {} ELSE {"lombok"}
    IN
    IF ~e.cfgOk THEN Returned(s, op, e, "Err", "settings", Absent, {}, 0)
    ELSE IF e.lombok = "Err" THEN Returned(s, op, e, "Err", "lombok", Absent, lombokAsked, 0)
    ELSE
      LET b == IF e.launcher THEN [s |-> s, res |-> "Ok", asked |-> {}]
               ELSE java_self_managed(s, e)
          command == IF e.launcher THEN "launcher" ELSE "java"
          asked == lombokAsked \cup b.asked
      IN
      IF b.res = "Err" THEN Returned(b.s, op, e, "Err", "launch args", Absent, asked, 0)
      ELSE IF ~b.s.integrations  \* self.debugger()?
      THEN Returned(b.s, op, e, "Err", NotInitializedError, Absent, asked, 0)
      ELSE
        LET s2 == get_or_download_start(b.s, e) IN
        IF ~e.nodeOk
        THEN Returned(s2, op, e, "Err", "node", Absent, asked \cup {"debugger"}, 0)
        ELSE Returned(s2, op, e, "Ok", Absent, command, asked \cup {"debugger"}, 0)

\* lib.rs Java::language_server_command: debugger_jar_path first, with ?
lib_language_server_command(s0, e) ==
    LET op == "language_server_command"
        s == [s0 EXCEPT !.wasLoaded = s0.loaded]
        lombokAsked == IF e.lombok = "off" THEN {} ELSE {"lombok"}
    IN
    IF ~e.dbgOk THEN Returned(s, op, e, "Err", "debugger", Absent, {"debugger"}, 0)
    ELSE
      LET s2 == get_or_download_start(s, e) IN
      IF ~e.cfgOk THEN Returned(s2, op, e, "Err", "settings", Absent, {"debugger"}, 0)
      ELSE IF ~e.launcher /\ ~e.binOk
      THEN Returned(s2, op, e, "Err", "server", Absent, {"debugger", "server"}, 0)
      ELSE
        LET asked == {"debugger"} \cup (IF e.launcher THEN {} ELSE {"server"}) \cup lombokAsked
            command == IF e.launcher THEN "launcher" ELSE "jdtls"
        IN
        IF e.lombok = "Err" THEN Returned(s2, op, e, "Err", "lombok", Absent, asked, 0)
        ELSE IF ~e.nodeOk THEN Returned(s2, op, e, "Err", "node", Absent, asked, 0)
        ELSE Returned(s2, op, e, "Ok", Absent, command, asked, 0)

not_loaded_IntegrationsOnly(s) == ~s.integrations

\* !self.debugger().is_ok_and(|v| v.loaded())
not_loaded(s) == ~(s.integrations /\ s.loaded)

\* java.rs Java::get_dap_binary: inject_config asks the collaborator for the
\* entry points and the class path of a launch, start_session for the port
java_get_dap_binary(s0, d) ==
    LET op == "get_dap_binary"
        s == [s0 EXCEPT !.wasLoaded = s0.loaded]
    IN
    IF not_loaded(s) THEN Returned(s, op, d, "Err", NotLoadedError, Absent, {}, 0)
    ELSE IF ~d.adapterOk THEN Returned(s, op, d, "Err", "adapter", Absent, {}, 0)
    ELSE IF d.request = "other" THEN Returned(s, op, d, "Err", "request", Absent, {}, 0)
    ELSE IF d.request = "attach"
    THEN Returned(s, op, d, IF d.lspOk THEN "Ok" ELSE "Err",
                  IF d.lspOk THEN Absent ELSE "lsp", Absent, {}, 1)
    ELSE IF ~d.lspOk THEN Returned(s, op, d, "Err", "lsp", Absent, {}, 1)
    ELSE Returned(s, op, d, "Ok", Absent, Absent, {}, 3)

\* java.rs Java::dap_config_to_scenario
java_dap_config_to_scenario(s0, d) ==
    LET op == "dap_config_to_scenario"
        s == [s0 EXCEPT !.wasLoaded = s0.loaded]
    IN
    IF not_loaded(s) THEN Returned(s, op, d, "Err", NotLoadedError, Absent, {}, 0)
    ELSE IF d.request # "attach" THEN Returned(s, op, d, "Err", "launching", Absent, {}, 0)
    ELSE Returned(s, op, d, IF d.lspOk THEN "Ok" ELSE "Err",
                  IF d.lspOk THEN Absent ELSE "lsp", Absent, {}, 1)

InitSession ==
    /\ art = "debugger"
    /\ rootDir = FALSE
    /\ entries = <<>>
    /\ marker = None
    /\ latest = ForkVersion
    /\ cache = None
    /\ last = NoCall
    /\ prev = Summary(NoCall)
    /\ inj = NoInject
    /\ call \in {NewSession(crate) : crate \in {"java.rs", "lib.rs"}}

Called(s) ==
    /\ call' = s
    /\ UNCHANGED <<art, rootDir, entries, marker, latest, cache, last, prev, inj>>

\* An input the call never reads is fixed.
RelevantStart(e) ==
    /\ (e.launcher \/ ~e.javaOk) => e.binOk
    /\ (e.launcher \/ ~e.binOk) => e.jarOk

RelevantDebug(d) == d.adapterOk \/ d.request = "attach"

JavaLanguageServerCommand ==
    /\ call.kind = "session" /\ call.crate = "java.rs"
    /\ \E e \in StartEnvs : RelevantStart(e) /\ Called(java_language_server_command(call, e))

LibLanguageServerCommand ==
    /\ call.kind = "session" /\ call.crate = "lib.rs"
    /\ \E e \in StartEnvs :
          /\ e.javaOk /\ e.jarOk /\ (e.launcher => e.binOk)
          /\ Called(lib_language_server_command(call, e))

JavaGetDapBinary ==
    /\ call.kind = "session" /\ call.crate = "java.rs"
    /\ \E d \in DebugEnvs : Called(java_get_dap_binary(call, d))

JavaDapConfigToScenario ==
    /\ call.kind = "session" /\ call.crate = "java.rs"
    /\ \E d \in DebugEnvs :
          /\ d.adapterOk /\ d.request # "other"
          /\ Called(java_dap_config_to_scenario(call, d))

NextSession ==
    \/ JavaLanguageServerCommand
    \/ LibLanguageServerCommand
    \/ JavaGetDapBinary
    \/ JavaDapConfigToScenario

SpecSession == InitSession /\ [][NextSession]_vars


----------------------------------------------------------------------------
\* C31: whenever a jdtls launcher is on the search path (and the host answers
\* the settings and the node binary, and no lombok jar fails to resolve),
\* language_server_command returns Ok with a command that invokes that
\* launcher and has made no runtime lookup, no server install and no jar/-data
\* assembly, whatever the instance did before.
C31_LauncherOnPathStarts ==
    (/\ call.kind = "session" /\ call.crate = "java.rs"
     /\ call.op = "language_server_command"
     /\ call.env.launcher /\ call.env.cfgOk /\ call.env.nodeOk /\ call.env.lombok # "Err") =>
        /\ call.res = "Ok"
        /\ call.command = "launcher"
        /\ call.asked \cap {"runtime", "server", "jar_data"} = {}

----------------------------------------------------------------------------
\* C32: a server start whose debugger-plugin download failed, and in which
\* nothing else failed, still returns the server command, and leaves the
\* debugger as loaded or not loaded as it was.
C32_DebuggerFailureNotFatal ==
    (/\ call.kind = "session" /\ call.op = "language_server_command"
     /\ "debugger" \in call.asked /\ ~call.env.dbgOk
     /\ call.env.cfgOk /\ call.env.nodeOk /\ call.env.lombok # "Err"
     /\ call.env.launcher \/ (call.env.javaOk /\ call.env.binOk /\ call.env.jarOk)) =>
        /\ call.res = "Ok"
        /\ call.loaded = call.wasLoaded

----------------------------------------------------------------------------
\* C38: until a server start has resolved the debugger plugin, get_dap_binary
\* and dap_config_to_scenario return "Debugger plugin is not loaded" and send
\* nothing to the collaborator; the debugger is loaded only by a server start,
\* and no call unloads it.
C38_NotLoadedUntilStarted ==
    /\ (/\ call.kind = "session" /\ call.crate = "java.rs"
        /\ call.op \in {"get_dap_binary", "dap_config_to_scenario"}
        /\ ~call.started) =>
            (call.res = "Err" /\ call.err = NotLoadedError /\ call.requests = 0)
    /\ (call.kind = "session" /\ call.crate = "java.rs") =>
            /\ call.loaded => call.started
            /\ call.wasLoaded => call.loaded

\* a server start created the integrations, its plugin download failed, and
\* the debug request that follows is refused without a request sent
C38_Witness ==
    /\ call.kind = "session" /\ call.crate = "java.rs"
    /\ call.op = "get_dap_binary" /\ call.integrations /\ ~call.started
    /\ call.env.adapterOk /\ call.env.request = "launch" /\ call.env.lspOk
    /\ call.err = NotLoadedError /\ call.requests = 0

----------------------------------------------------------------------------
\* the proxy port file and LspClient::request

\* texts found in a port file that the proxy did not write: empty, no
\* number, a number with a leading zero, u16::MAX, and numbers above it
PortTexts ==
    {<<>>, <<"x">>, <<"7", "x">>, <<"0", "7">>, <<"6", "5", "5", "3", "5">>,
     <<"6", "5", "5", "3", "6">>, <<"9", "9", "9", "9", "9">>, <<"1", "0", "0", "0", "0", "0">>}

\* ports the proxy listens on, as the decimal text it writes to its port file
ProxyPorts == {<<"7">>, <<"9", "7">>, <<"7", "9", "9", "7">>}

U16_MAX == <<"6", "5", "5", "3", "5">>

NoPort == <<>>

PortFileError == "Failed to find lsp port file"
PortCorruptError == "Failed to read a lsp proxy port, file corrupted"
SendError == "Failed to send request to lsp proxy"

\* str::parse::<u16>: an error for the empty string, for a character that is
\* no digit and for a number above u16::MAX; the value is kept as the decimal
\* digits that format!("{port}") prints
parse_u16(text) ==
    IF \/ text = <<>>
       \/ \E i \in 1..Len(text) : \A d \in 1..Len(Digits) : Digits[d] # text[i]
    THEN [ok |-> FALSE, value |-> NoPort]
    ELSE IF NumLess(U16_MAX, StripLeadingZeros(text))
    THEN [ok |-> FALSE, value |-> NoPort]
    ELSE [ok |-> TRUE, value |-> StripLeadingZeros(text)]

\* proxy/<hex(workspace)>: whether it is a file, and its text
PortFile(exists, text) == [exists |-> exists, text |-> text]

\* The client's surroundings and the report of its last request: the port
\* file, the port the running proxy listens on (NoPort when none runs), the
\* port the request was posted to (NoPort when nothing was sent), and the
\* port the request before it was posted to.
Proxy(file, listening) ==
    [op |-> "none", kind |-> "proxy", file |-> file, listening |-> listening,
     res |-> "-", err |-> Absent, sent_to |-> NoPort, sent_before |-> NoPort]

Requested(s, res, err, port) ==
    [s EXCEPT !.op = "request", !.res = res, !.err = err, !.sent_to = port,
              !.sent_before = s.sent_to]

request_CachedPort(s, answer) ==
    IF ~s.file.exists THEN Requested(s, "Err", PortFileError, NoPort)
    ELSE
      LET port == IF s.sent_to # NoPort THEN [ok |-> TRUE, value |-> s.sent_to]
                  ELSE parse_u16(s.file.text) IN
      IF ~port.ok THEN Requested(s, "Err", PortCorruptError, NoPort)
      ELSE IF port.value # s.listening THEN Requested(s, "Err", SendError, port.value)
      ELSE Requested(s, answer, IF answer = "Ok" THEN Absent ELSE "lsp error", port.value)

\* LspClient::request: the port is read from the file in every call; the
\* fetch fails when nothing listens on that port, else the proxy's answer is
\* a result or an error
request(s, answer) ==
    IF ~s.file.exists THEN Requested(s, "Err", PortFileError, NoPort)
    ELSE
      LET port == parse_u16(s.file.text) IN
      IF ~port.ok THEN Requested(s, "Err", PortCorruptError, NoPort)
      ELSE IF port.value # s.listening THEN Requested(s, "Err", SendError, port.value)
      ELSE Requested(s, answer, IF answer = "Ok" THEN Absent ELSE "lsp error", port.value)

InitProxy ==
    /\ art = "jdtls"
    /\ rootDir = FALSE
    /\ entries = <<>>
    /\ marker = None
    /\ latest = ForkVersion
    /\ cache = None
    /\ last = NoCall
    /\ prev = Summary(NoCall)
    /\ inj = NoInject
    /\ call = Proxy(PortFile(FALSE, <<>>), NoPort)

Surroundings(s) ==
    /\ call' = s
    /\ UNCHANGED <<art, rootDir, entries, marker, latest, cache, last, prev, inj>>

\* the server is started or restarted: proxy.mjs listens on a port and writes
\* it to the port file
ServerRestart ==
    /\ call.kind = "proxy"
    /\ \E port \in ProxyPorts :
          Surroundings([call EXCEPT !.op = "restart", !.file = PortFile(TRUE, port),
                                    !.listening = port])

\* the server stops; its port file stays behind
ServerStop ==
    /\ call.kind = "proxy" /\ call.listening # NoPort
    /\ Surroundings([call EXCEPT !.op = "stop", !.listening = NoPort])

\* the port file is removed or overwritten from outside
PortFileChanged ==
    /\ call.kind = "proxy"
    /\ \E file \in {PortFile(FALSE, <<>>)} \cup {PortFile(TRUE, t) : t \in PortTexts} :
          Surroundings([call EXCEPT !.op = "file", !.file = file])

Request ==
    /\ call.kind = "proxy"
    /\ \E answer \in {"Ok", "Err"} : Surroundings(request(call, answer))

NextProxy ==
    \/ ServerRestart
    \/ ServerStop
    \/ PortFileChanged
    \/ Request

SpecProxy == InitProxy /\ [][NextProxy]_vars

----------------------------------------------------------------------------
\* C37: every request posts to the port that the port file holds when the
\* request is made, whatever port an earlier request used, so a request after
\* a restart goes to the port the restarted server wrote; when the port file
\* is absent the request returns the port-file error and posts nothing.
C37_PortReadAfresh ==
    (call.kind = "proxy" /\ call.op = "request") =>
        /\ ~call.file.exists => (call.res = "Err" /\ call.err = PortFileError /\ call.sent_to = NoPort)
        /\ call.sent_to # NoPort => call.sent_to = parse_u16(call.file.text).value
        /\ (call.file.exists /\ call.file.text = call.listening /\ call.listening # NoPort) =>
              call.sent_to = call.listening

\* a request answered on one port, a restart on another port, and the next
\* request is answered on the new port
C37_Witness ==
    /\ call.kind = "proxy" /\ call.op = "request" /\ call.res = "Ok"
    /\ call.sent_before # NoPort /\ call.sent_before # call.sent_to
    /\ call.sent_to = call.listening

----------------------------------------------------------------------------
\* what the host sees of a resolve, in order: the installation statuses it
\* is told, the version-source requests and the download calls

SourceRequests(n) == [i \in 1..n |-> "request"]

\* jdk.rs try_to_fetch_and_install_latest_jdk: latest_github_release, then
\* CheckingForUpdate, then Downloading and download_file if not installed
jdk_status_events(r) ==
    IF r.fetches = 0 THEN <<>>
    ELSE IF r.fetched = None THEN <<"request">>
    ELSE <<"request", "CheckingForUpdate">>
            \o (IF r.downloads = "none" THEN <<>> ELSE <<"Downloading", "download">>)

\* jdtls.rs try_to_fetch_and_install_latest_jdtls: the two fetches, then
\* Downloading and download_file if the binary is not installed
jdtls_status_events(r) ==
    SourceRequests(r.fetches)
        \o (IF r.downloads = "none" THEN <<>> ELSE <<"Downloading", "download">>)

\* Debugger::get_or_download_fork: download_file unless the cached jar is valid
fork_status_events(r) ==
    IF r.downloads = "none" THEN <<>> ELSE <<"download">>

status_events(r) ==
    CASE r.op = "jdk" -> jdk_status_events(r)
      [] r.op = "jdtls_fetch" -> jdtls_status_events(r)
      [] r.op = "debugger" -> fork_status_events(r)
      [] OTHER -> <<>>

\* C34: in a resolve that emits CheckingForUpdate itself, the status comes
\* before every version-source request; every download call comes directly
\* after a Downloading status, and every Downloading status is followed by a
\* download call.
C34_StatusBeforePhase ==
    LET ev == status_events(last) IN
    /\ last.op = "jdk" =>
          \A i \in 1..Len(ev) : ev[i] = "request" =>
              \E j \in 1..(i - 1) : ev[j] = "CheckingForUpdate"
    /\ \A i \in 1..Len(ev) : ev[i] = "download" => (i > 1 /\ ev[i - 1] = "Downloading")
    /\ \A i \in 1..Len(ev) : ev[i] = "Downloading" => (i < Len(ev) /\ ev[i + 1] = "download")

----------------------------------------------------------------------------
\* two sessions installing and pruning in the same server install root

Sessions == {1, 2}

\* A session inside try_to_fetch_and_install_latest_jdtls, after the version
\* source answered build: where it stands (pc), the entries its read_dir
\* returned and it has not visited yet, its result, whether it reached the
\* prune, how many listed entries it found already gone, and whether its
\* listing or a removal of an entry still present failed.
Installer(build) ==
    [pc |-> "check", build |-> build, listed |-> {}, res |-> "-", pruned |-> FALSE,
     gone |-> 0, failed |-> FALSE]

\* jdtls/: per build directory "none", or "installed" when bin/<binary> is a
\* file in it
Roots == [Versions -> {"none", "installed"}]

Race(root, a, b) ==
    [op |-> "none", kind |-> "race", root |-> root, s |-> <<a, b>>]

InitRace ==
    /\ art = "jdtls"
    /\ rootDir = FALSE
    /\ entries = <<>>
    /\ marker = None
    /\ latest = ForkVersion
    /\ cache = None
    /\ last = NoCall
    /\ prev = Summary(NoCall)
    /\ inj = NoInject
    /\ call \in {Race(root, Installer(a), Installer(b)) :
                    root \in Roots, a \in Versions, b \in Versions}

Step(op, i, si, root) ==
    /\ call' = [call EXCEPT !.op = op, !.root = root, !.s[i] = si]
    /\ UNCHANGED <<art, rootDir, entries, marker, latest, cache, last, prev, inj>>

At(i, pc) == call.kind = "race" /\ call.s[i].pc = pc

Finished(si, res) == [si EXCEPT !.pc = "done", !.res = res]

\* if !metadata(&binary_path).is_ok_and(|stat| stat.is_file())
BinaryInstalled(i) ==
    /\ At(i, "check")
    /\ LET si == call.s[i] IN
       IF call.root[si.build] = "installed"
       THEN Step("check", i, Finished(si, "Ok"), call.root)
       ELSE Step("check", i, [si EXCEPT !.pc = "download"], call.root)

\* download_file(.., build_path, GzipTar)?
DownloadFile(i) ==
    /\ At(i, "download")
    /\ LET si == call.s[i] IN
       \E dlOk \in BOOLEAN :
          IF dlOk
          THEN Step("download", i, [si EXCEPT !.pc = "chmod"],
                    [call.root EXCEPT ![si.build] = "installed"])
          ELSE Step("download", i, Finished(si, "Err"), call.root)

\* make_file_executable(binary_path)?: an error when the file is not there
MakeFileExecutable(i) ==
    /\ At(i, "chmod")
    /\ LET si == call.s[i] IN
       IF call.root[si.build] = "installed"
       THEN Step("chmod", i, [si EXCEPT !.pc = "list"], call.root)
       ELSE Step("chmod", i, Finished(si, "Err"), call.root)

\* remove_all_files_except: fs::read_dir(prefix); its Err ends the prune and
\* is dropped by `let _ =`
ReadDir(i) ==
    /\ At(i, "list")
    /\ LET si == call.s[i] IN
       \E listOk \in BOOLEAN :
          IF listOk
          THEN Step("list", i,
                    [si EXCEPT !.pc = "remove", !.pruned = TRUE,
                               !.listed = {v \in Versions : call.root[v] # "none"} \ {si.build}],
                    call.root)
          ELSE Step("list", i, [Finished(si, "Ok") EXCEPT !.pruned = TRUE, !.failed = TRUE],
                    call.root)

RemoveEntry_FailsWhenGone(i) ==
    /\ At(i, "remove")
    /\ LET si == call.s[i] IN
       IF si.listed = {} THEN Step("remove", i, Finished(si, "Ok"), call.root)
       ELSE \E v \in si.listed :
              LET rest == [si EXCEPT !.listed = si.listed \ {v}] IN
              IF call.root[v] = "none"
              THEN Step("remove", i, Finished([rest EXCEPT !.gone = si.gone + 1], "Err"), call.root)
              ELSE \E rmOk \in BOOLEAN :
                     IF rmOk THEN Step("remove", i, rest, [call.root EXCEPT ![v] = "none"])
                     ELSE Step("remove", i, [rest EXCEPT !.failed = TRUE], call.root)

\* remove_all_files_except: one turn of the loop over the listed entries; an
\* entry that is gone, or whose removal fails, is printed and skipped; after
\* the last entry the resolve returns Ok(build_path)
RemoveEntry(i) ==
    /\ At(i, "remove")
    /\ LET si == call.s[i] IN
       IF si.listed = {} THEN Step("remove", i, Finished(si, "Ok"), call.root)
       ELSE \E v \in si.listed :
              LET rest == [si EXCEPT !.listed = si.listed \ {v}] IN
              IF call.root[v] = "none"
              THEN Step("remove", i, [rest EXCEPT !.gone = si.gone + 1], call.root)
              ELSE \E rmOk \in BOOLEAN :
                     IF rmOk THEN Step("remove", i, rest, [call.root EXCEPT ![v] = "none"])
                     ELSE Step("remove", i, [rest EXCEPT !.failed = TRUE], call.root)

NextRace ==
    \/ \E i \in Sessions : BinaryInstalled(i)
    \/ \E i \in Sessions : DownloadFile(i)
    \/ \E i \in Sessions : MakeFileExecutable(i)
    \/ \E i \in Sessions : ReadDir(i)
    \/ \E i \in Sessions : RemoveEntry(i)

SpecRace == InitRace /\ [][NextRace]_vars

BothDone == call.kind = "race" /\ \A i \in Sessions : call.s[i].pc = "done"

VersionsLeft == {v \in Versions : call.root[v] # "none"}

====
